---- MODULE Spec2Model ----
(***************************************************************************)
(* Diff truncation and prompt construction of commity                      *)
(* (internal/ai/prompt.go).                                                *)
(*                                                                         *)
(* Representation of Go strings.  A string is modelled by the sequence of  *)
(* its pieces between "\n" characters: a non-empty sequence of newline-free*)
(* TLA+ strings.  "" is <<"">>, "a\nb" is <<"a","b">>, "a\n" is            *)
(* <<"a","">>.  Lengths, prefixes and substrings are computed on the real  *)
(* characters of the pieces.                                               *)
(***************************************************************************)
EXTENDS Integers, Sequences, FiniteSets, TLC

\* ------------------------------------------------------------------------
\* Program constants (prompt.go:9-13)
\* ------------------------------------------------------------------------
MaxDiffSize == 12000
ShowLines == 100
SkipLines == 50

\* ------------------------------------------------------------------------
\* Go string and strings.Builder primitives on the piece representation
\* ------------------------------------------------------------------------
EmptyText == <<"">>

\* A newline-free literal s as a string.
Str(s) == <<s>>

\* The string "\n".
NL == <<"", "">>

\* a + b, and Builder.WriteString(b) on a builder holding a.
Cat(a, b) == SubSeq(a, 1, Len(a) - 1) \o <<a[Len(a)] \o b[1]>> \o Tail(b)

Min(a, b) == IF a < b THEN a ELSE b

RECURSIVE SumLen(_, _, _)
SumLen(t, lo, hi) ==
    IF lo > hi THEN 0
    ELSE IF lo = hi THEN Len(t[lo])
    ELSE LET mid == (lo + hi) \div 2
         IN  SumLen(t, lo, mid) + SumLen(t, mid + 1, hi)

\* len(s), Builder.Len(): the characters of the pieces and the newlines
\* between them.
TextLen(t) == SumLen(t, 1, Len(t)) + Len(t) - 1

\* strings.HasPrefix(s, p) on a newline-free s.
HasPrefix(s, p) == Len(s) >= Len(p) /\ SubSeq(s, 1, Len(p)) = p

\* strings.Contains(s, sub) for a newline-free sub: some piece holds it.
Contains(t, sub) ==
    \E k \in 1..Len(t) :
        \E i \in 1..(Len(t[k]) - Len(sub) + 1) :
            SubSeq(t[k], i, i + Len(sub) - 1) = sub

\* strings.Split(s, "\n"): the pieces of s.
Split(s) == [k \in 1..Len(s) |-> s[k]]

\* strings.Join(lines, "\n") of newline-free lines.
Join(lines) == IF Len(lines) = 0 THEN EmptyText ELSE lines

\* for each line of ls: WriteString(line); WriteString("\n")
\* (Cat(Cat(b, Str(l1)), NL) ... taken at once: the written text is
\* l1 "\n" l2 "\n" ... ln "\n", whose pieces are ls followed by "").
WriteLines(b, ls) == Cat(b, ls \o <<"">>)

\* The first index after i whose line has prefix p, Len(lines) + 1 if none.
NextMatch(lines, i, p) ==
    LET S == {j \in (i + 1)..Len(lines) : HasPrefix(lines[j], p)}
    IN  IF S = {} THEN Len(lines) + 1
        ELSE CHOOSE j \in S : \A k \in S : j <= k

\* ------------------------------------------------------------------------
\* truncateHunk (prompt.go:168-211)
\* ------------------------------------------------------------------------
\* fmt.Sprintf("... [lines %d-%d: %d lines skipped - similar changes
\* continue] ...", startLine, endLine, skipped), without its final "\n".
Marker(startLine, endLine, skipped) ==
    "... [lines " \o ToString(startLine) \o "-" \o ToString(endLine) \o ": "
        \o ToString(skipped) \o " lines skipped - similar changes continue] ..."

\* A variant of the loop that skips ShowLines lines where the source skips
\* SkipLines (line 194); the counts of C2 tell it from the source.
RECURSIVE hunkLoopSkipsShowLines(_, _, _, _)
hunkLoopSkipsShowLines(lines, i, lineNum, result) ==
    IF ~(i < Len(lines)) THEN result
    ELSE LET end     == Min(i + ShowLines, Len(lines))
             shown   == WriteLines(result, SubSeq(lines, i + 1, end))
             num1    == lineNum + (end - i)
         IN  IF end < Len(lines)
             THEN LET skipEnd == Min(end + ShowLines, Len(lines))
                      skipped == skipEnd - end
                  IN  hunkLoopSkipsShowLines(lines, skipEnd, num1 + skipped,
                          WriteLines(shown,
                              <<Marker(num1 + 1, num1 + skipped, skipped)>>))
             ELSE shown

\* A variant of the loop without the clamp of lines 195-197: the marker of
\* a shortened last skip reports SkipLines lines; the accounting of C4 tells
\* it from the source.
RECURSIVE hunkLoopUnclamped(_, _, _, _)
hunkLoopUnclamped(lines, i, lineNum, result) ==
    IF ~(i < Len(lines)) THEN result
    ELSE LET end     == Min(i + ShowLines, Len(lines))
             shown   == WriteLines(result, SubSeq(lines, i + 1, end))
             num1    == lineNum + (end - i)
         IN  IF end < Len(lines)
             THEN hunkLoopUnclamped(lines, end + SkipLines, num1 + SkipLines,
                      WriteLines(shown,
                          <<Marker(num1 + 1, num1 + SkipLines, SkipLines)>>))
             ELSE shown

\* One iteration of `for i < len(lines)` per call; i and lineNum are the
\* loop's variables (0-based i), result the builder.
RECURSIVE hunkLoop(_, _, _, _)
hunkLoop(lines, i, lineNum, result) ==
    IF ~(i < Len(lines)) THEN result
    ELSE LET end     == Min(i + ShowLines, Len(lines))
             shown   == WriteLines(result, SubSeq(lines, i + 1, end))
             num1    == lineNum + (end - i)
         IN  IF end < Len(lines)
             THEN LET skipEnd == Min(end + SkipLines, Len(lines))
                      skipped == skipEnd - end
                  IN  IF skipped > 0
                      THEN hunkLoop(lines, skipEnd, num1 + skipped,
                               WriteLines(shown,
                                   <<Marker(num1 + 1, num1 + skipped, skipped)>>))
                      ELSE hunkLoop(lines, skipEnd, num1, shown)
             ELSE hunkLoop(lines, end, num1, shown)

truncateHunk(lines) ==
    IF Len(lines) <= ShowLines
    THEN Cat(Join(lines), NL)
    ELSE hunkLoop(lines, 0, 0, EmptyText)

\* ------------------------------------------------------------------------
\* truncateFile (prompt.go:136-166)
\* ------------------------------------------------------------------------
\* The loop `for _, line := range lines` from 1-based index i on.  The
\* lines after i up to the next "@@" line take the same branch as each
\* other (inHunk does not change between two "@@" lines), so they are
\* handled with line i's successor state in one step.
RECURSIVE fileLoop(_, _, _, _, _)
fileLoop(lines, i, result, hunkLines, inHunk) ==
    IF i > Len(lines) THEN <<result, hunkLines>>
    ELSE LET line == lines[i]
             j    == NextMatch(lines, i, "@@")
             rest == SubSeq(lines, i + 1, j - 1)
         IN  IF HasPrefix(line, "@@")
             THEN fileLoop(lines, j,
                      IF Len(hunkLines) > 0
                      THEN Cat(result, truncateHunk(hunkLines))
                      ELSE result,
                      <<line>> \o rest, TRUE)
             ELSE IF inHunk
             THEN fileLoop(lines, j, result, hunkLines \o <<line>> \o rest, TRUE)
             ELSE fileLoop(lines, j, WriteLines(result, <<line>> \o rest),
                           hunkLines, FALSE)

\* A variant that starts with inHunk set, so that the lines before the first
\* "@@" line are collected and truncated as a hunk; C8 tells it from the
\* source.
truncateFileHeaderAsHunk(fileDiff) ==
    LET r == fileLoop(Split(fileDiff), 1, EmptyText, <<>>, TRUE)
    IN  IF Len(r[2]) > 0 THEN Cat(r[1], truncateHunk(r[2])) ELSE r[1]

truncateFile(fileDiff) ==
    LET r == fileLoop(Split(fileDiff), 1, EmptyText, <<>>, FALSE)
    IN  IF Len(r[2]) > 0 THEN Cat(r[1], truncateHunk(r[2])) ELSE r[1]

\* ------------------------------------------------------------------------
\* splitByFiles (prompt.go:114-134)
\* ------------------------------------------------------------------------
\* The loop from 1-based index i on, one "diff --git" boundary per call:
\* the lines after i up to the next "diff --git" line fail the flush
\* condition and are only written.
RECURSIVE splitLoop(_, _, _, _)
splitLoop(lines, i, files, current) ==
    IF i > Len(lines) THEN <<files, current>>
    ELSE LET line  == lines[i]
             flush == HasPrefix(line, "diff --git") /\ TextLen(current) > 0
             j     == NextMatch(lines, i, "diff --git")
         IN  splitLoop(lines, j,
                 IF flush THEN Append(files, current) ELSE files,
                 WriteLines(IF flush THEN EmptyText ELSE current,
                            SubSeq(lines, i, j - 1)))

\* A variant without the flush of lines 129-131, which loses the last
\* section; C7 tells it from the source.
splitByFilesNoLastFlush(diff) ==
    splitLoop(Split(diff), 1, <<>>, EmptyText)[1]

splitByFiles(diff) ==
    LET r == splitLoop(Split(diff), 1, <<>>, EmptyText)
    IN  IF TextLen(r[2]) > 0 THEN Append(r[1], r[2]) ELSE r[1]

\* ------------------------------------------------------------------------
\* BuildPrompt (prompt.go:53-88); `truncated` is the value truncateDiff(diff)
\* returns at line 74.  Arguments and results are strings (piece sequences).
\* ------------------------------------------------------------------------
\* The character U+0060 of the source, which a TLA+ string cannot hold: one
\* character that occurs nowhere else in the texts.
BT == "^"
Fence == BT \o BT \o BT

RECURSIVE JoinWith(_, _)
\* strings.Join(elems, sep)
JoinWith(elems, sep) ==
    IF Len(elems) = 0 THEN EmptyText
    ELSE IF Len(elems) = 1 THEN elems[1]
    ELSE Cat(Cat(elems[1], sep), JoinWith(Tail(elems), sep))

RECURSIVE WriteFileList(_, _)
\* for _, f := range files { sb.WriteString(fmt.Sprintf("- %s\n", f)) }
WriteFileList(sb, fs) ==
    IF Len(fs) = 0 THEN sb
    ELSE WriteFileList(Cat(Cat(Cat(sb, Str("- ")), fs[1]), NL), Tail(fs))

\* A variant of BuildPrompt that writes the sentence of the allowed types
\* whether or not conventional is set.
BuildPromptAlwaysTypes(fileNames, truncated, conventional, types, customInstructions, previousMsg, feedback) ==
    LET framing ==
            IF previousMsg = EmptyText
            THEN <<"Generate a commit message for these changes:", "", "">>
            ELSE LET s1 == <<"The user wants you to regenerate the commit message.", "", "">>
                     s2 == Cat(Cat(s1, Cat(<<"Previous message:", Fence, "">>, previousMsg)),
                               <<"", Fence, "", "">>)
                     s3 == IF feedback # EmptyText
                           THEN Cat(Cat(Cat(s2, Str("User feedback: ")), feedback),
                                    <<"", "", "">>)
                           ELSE s2
                 IN  Cat(s3, <<"Generate an improved commit message based on the feedback.", "", "">>)
        listed  == WriteFileList(Cat(framing, <<"Files changed:", "">>), fileNames)
        diffed  == Cat(Cat(Cat(listed, <<"", "Diff:", Fence, "">>), truncated),
                       <<"", Fence, "">>)
        typed   == IF conventional \/ ~conventional
                   THEN Cat(Cat(Cat(diffed,
                            <<"", "Use conventional commit format with one of these types: ">>),
                            JoinWith(types, Str(", "))), NL)
                   ELSE diffed
        custom  == IF customInstructions # EmptyText
                   THEN Cat(Cat(Cat(typed, <<"", "Additional instructions: ">>),
                                customInstructions), NL)
                   ELSE typed
    IN  Cat(custom, <<"", "Analyze the changes and decide: use " \o BT \o "submit_commit" \o BT \o " for related changes, or " \o BT \o "split_commits" \o BT \o " if changes should be separate commits.">>)

\* A variant of BuildPrompt that writes the "User feedback:" line of a
\* regeneration request whether or not there is feedback.
BuildPromptAlwaysFeedback(fileNames, truncated, conventional, types, customInstructions, previousMsg, feedback) ==
    LET framing ==
            IF previousMsg = EmptyText
            THEN <<"Generate a commit message for these changes:", "", "">>
            ELSE LET s1 == <<"The user wants you to regenerate the commit message.", "", "">>
                     s2 == Cat(Cat(s1, Cat(<<"Previous message:", Fence, "">>, previousMsg)),
                               <<"", Fence, "", "">>)
                     s3 == IF feedback # EmptyText \/ feedback = EmptyText
                           THEN Cat(Cat(Cat(s2, Str("User feedback: ")), feedback),
                                    <<"", "", "">>)
                           ELSE s2
                 IN  Cat(s3, <<"Generate an improved commit message based on the feedback.", "", "">>)
        listed  == WriteFileList(Cat(framing, <<"Files changed:", "">>), fileNames)
        diffed  == Cat(Cat(Cat(listed, <<"", "Diff:", Fence, "">>), truncated),
                       <<"", Fence, "">>)
        typed   == IF conventional
                   THEN Cat(Cat(Cat(diffed,
                            <<"", "Use conventional commit format with one of these types: ">>),
                            JoinWith(types, Str(", "))), NL)
                   ELSE diffed
        custom  == IF customInstructions # EmptyText
                   THEN Cat(Cat(Cat(typed, <<"", "Additional instructions: ">>),
                                customInstructions), NL)
                   ELSE typed
    IN  Cat(custom, <<"", "Analyze the changes and decide: use " \o BT \o "submit_commit" \o BT \o " for related changes, or " \o BT \o "split_commits" \o BT \o " if changes should be separate commits.">>)

BuildPrompt(fileNames, truncated, conventional, types, customInstructions, previousMsg, feedback) ==
    LET framing ==
            IF previousMsg = EmptyText
            THEN <<"Generate a commit message for these changes:", "", "">>
            ELSE LET s1 == <<"The user wants you to regenerate the commit message.", "", "">>
                     s2 == Cat(Cat(s1, Cat(<<"Previous message:", Fence, "">>, previousMsg)),
                               <<"", Fence, "", "">>)
                     s3 == IF feedback # EmptyText
                           THEN Cat(Cat(Cat(s2, Str("User feedback: ")), feedback),
                                    <<"", "", "">>)
                           ELSE s2
                 IN  Cat(s3, <<"Generate an improved commit message based on the feedback.", "", "">>)
        listed  == WriteFileList(Cat(framing, <<"Files changed:", "">>), fileNames)
        diffed  == Cat(Cat(Cat(listed, <<"", "Diff:", Fence, "">>), truncated),
                       <<"", Fence, "">>)
        typed   == IF conventional
                   THEN Cat(Cat(Cat(diffed,
                            <<"", "Use conventional commit format with one of these types: ">>),
                            JoinWith(types, Str(", "))), NL)
                   ELSE diffed
        custom  == IF customInstructions # EmptyText
                   THEN Cat(Cat(Cat(typed, <<"", "Additional instructions: ">>),
                                customInstructions), NL)
                   ELSE typed
    IN  Cat(custom, <<"", "Analyze the changes and decide: use " \o BT \o "submit_commit" \o BT \o " for related changes, or " \o BT \o "split_commits" \o BT \o " if changes should be separate commits.">>)

\* ------------------------------------------------------------------------
\* Inputs: diff texts as git prints them (DiffAll, git.go:119-148), built
\* from a description of their file sections and hunks.
\* ------------------------------------------------------------------------
\* Number of full show/skip cycles a probed hunk may span.
MaxCycles == 3
\* Number of file sections in the diffs that probe the size budget.
MaxFiles == 3
\* Number of times truncation is run on its own output.
MaxPasses == 2

RECURSIVE Rep(_, _)
\* strings.Repeat(c, n)
Rep(c, n) ==
    IF n = 0 THEN ""
    ELSE IF n = 1 THEN c
    ELSE Rep(c, n \div 2) \o Rep(c, n - n \div 2)

\* i-th content line of hunk h of file f, padded by w characters.
ContentLine(f, h, i, w) ==
    "+" \o ToString(f) \o "." \o ToString(h) \o "." \o ToString(i) \o Rep("x", w)

\* A line of an earlier truncation, carried as content.
OldMarker(i) == Marker(100 + i, 149 + i, 50)

\* A hunk description hd = [n, w, mk]: the @@ header, mk lines that are
\* markers of an earlier truncation, n content lines.
HunkText(f, h, hd) ==
    <<"@@ -1," \o ToString(hd.n) \o " +1," \o ToString(hd.n) \o " @@">>
        \o [i \in 1..hd.mk |-> OldMarker(i)]
        \o [i \in 1..hd.n |-> ContentLine(f, h, i, hd.w)]

HeaderLine(f, i) ==
    IF i = 1 THEN "--- a/f" \o ToString(f)
    ELSE IF i = 2 THEN "+++ b/f" \o ToString(f)
    ELSE "similarity index " \o ToString(i) \o "%"

RECURSIVE HunksText(_, _, _)
HunksText(f, hs, h) ==
    IF h > Len(hs) THEN <<>>
    ELSE HunkText(f, h, hs[h]) \o HunksText(f, hs, h + 1)

\* A file description fd = [git, hdr, hunks].
FileText(f, fd) ==
    (IF fd.git THEN <<"diff --git a/f" \o ToString(f) \o " b/f" \o ToString(f)>> ELSE <<>>)
        \o [i \in 1..fd.hdr |-> HeaderLine(f, i)]
        \o HunksText(f, fd.hunks, 1)

RECURSIVE FilesText(_, _)
FilesText(fds, f) ==
    IF f > Len(fds) THEN <<>>
    ELSE FileText(f, fds[f]) \o FilesText(fds, f + 1)

\* The diff text of a shape [lead, files, nl]: leading lines, file sections,
\* and whether the text ends with a newline.
Build(shape) ==
    LET ls == shape.lead \o FilesText(shape.files, 1)
    IN  IF ls = <<>> THEN EmptyText
        ELSE IF shape.nl THEN ls \o <<"">> ELSE ls

Hunk(n) == [n |-> n, w |-> 0, mk |-> 0]
File(hs) == [git |-> TRUE, hdr |-> 2, hunks |-> hs]
Shape(fds, nl) == [lead |-> <<>>, files |-> fds, nl |-> nl]

ProbeOffsets ==
    {0, 1, 2, 10, SkipLines - 1, SkipLines, ShowLines - 2, ShowLines - 1, ShowLines,
     ShowLines + 1, ShowLines + 2, ShowLines + SkipLines - 2, ShowLines + SkipLines - 1}
ProbeSizes ==
    {q * (ShowLines + SkipLines) + r : q \in 0..MaxCycles, r \in ProbeOffsets}

\* One file with one probed hunk, last in its section or followed by another
\* hunk, in a text with or without a final newline.
ProbeShapes ==
    {Shape(<<File(<<Hunk(n)>>)>>, nl) : n \in ProbeSizes, nl \in BOOLEAN}
        \cup {Shape(<<File(<<Hunk(n), Hunk(1)>>)>>, TRUE) : n \in ProbeSizes}

\* File sections of a few characters, about half the budget, and more than
\* the budget (a hunk that is itself truncated, and headers alone).
FileClasses ==
    {File(<<Hunk(3)>>),
     File(<<[n |-> 60, w |-> 90, mk |-> 0]>>),
     File(<<[n |-> ShowLines + 60, w |-> 120, mk |-> 0]>>)}

RECURSIVE SeqsUpTo(_, _)
\* The non-empty sequences over S of length at most n.
SeqsUpTo(S, n) ==
    IF n = 0 THEN {}
    ELSE LET shorter == SeqsUpTo(S, n - 1)
         IN  {<<x>> : x \in S} \cup shorter
                 \cup {Append(s, x) : s \in shorter, x \in S}

BudgetShapes == {Shape(fds, TRUE) : fds \in SeqsUpTo(FileClasses, MaxFiles)}

\* The diff of TestBuildPromptDiffTruncation (ai_test.go:193).
LargeDiffLen == 10000
LargeDiff == <<Rep("a", LargeDiffLen)>>

\* A section whose rendering has exactly n characters: the section is the
\* "diff --git" line and one padded line; splitByFiles and truncateFile
\* each add a newline.
SizedFile(n) ==
    <<"diff --git a/big b/big", Rep("y", n - Len("diff --git a/big b/big") - 3)>>

EdgeTexts ==
    {EmptyText, <<"abc">>, <<"abc", "">>, NL, LargeDiff,
     <<"", "diff --git a/x b/x", "@@ -1 +1 @@", "+x">>,
     <<"warning: LF will be replaced by CRLF", "diff --git a/x b/x", "--- a/x",
       "+++ b/x", "@@ -1 +1 @@", "-x", "+y", "">>,
     <<"diff --git a/x b/x", "diff --git a/y b/y", "">>,
     <<"+++ notes.txt", "@@ not a header", "diff --git is mentioned late", "">>,
     <<"@@ -1 +1 @@", "+x", "@@ -9 +9 @@", "+y", "">>,
     SizedFile(MaxDiffSize),
     SizedFile(MaxDiffSize + 1),
     SizedFile(MaxDiffSize) \o <<"diff --git a/x b/x", "+x", "">>,
     SizedFile(MaxDiffSize + 1) \o <<"diff --git a/x b/x", "+x", "">>,
     <<"diff --git a/x b/x", "+x">> \o SizedFile(MaxDiffSize - 10) \o <<"">>}

EdgeShapes ==
    {\* sections without hunks, with more header lines than a hunk may show
     Shape(<<[git |-> TRUE, hdr |-> ShowLines + SkipLines + 5, hunks |-> <<>>]>>, TRUE),
     Shape(<<[git |-> TRUE, hdr |-> ShowLines + 5, hunks |-> <<Hunk(2)>>],
             [git |-> TRUE, hdr |-> 0, hunks |-> <<Hunk(0), Hunk(ShowLines + 1)>>]>>, TRUE),
     \* text that already carries markers of an earlier truncation
     Shape(<<File(<<[n |-> 5, w |-> 0, mk |-> 1]>>)>>, TRUE),
     Shape(<<File(<<[n |-> 20, w |-> 0, mk |-> 2], Hunk(3)>>),
             File(<<[n |-> 0, w |-> 0, mk |-> 1]>>)>>, TRUE),
     Shape(<<File(<<[n |-> ShowLines - 3, w |-> 0, mk |-> 1]>>)>>, TRUE),
     Shape(<<File(<<[n |-> ShowLines - 1, w |-> 0, mk |-> 1], Hunk(1)>>)>>, TRUE),
     Shape(<<File(<<[n |-> ShowLines + 20, w |-> 0, mk |-> 1]>>)>>, FALSE)}

Diffs == {Build(s) : s \in ProbeShapes \cup BudgetShapes \cup EdgeShapes} \cup EdgeTexts

\* Arguments of BuildPrompt other than the diff.
FileNames == <<Str("large.go")>>
Types == <<Str("feat"), Str("fix")>>
TypeLists == {<<>>, <<Str("docs")>>, Types, <<Str("fix"), Str("feat")>>}
PreviousMsgs == {EmptyText, <<"fix(auth): y", "", "body">>}
Feedbacks == {EmptyText, Str("make it shorter")}
CustomInstructions == {EmptyText, Str("write in English")}

\* ------------------------------------------------------------------------
\* truncateDiff (prompt.go:94-112) as a process, called by BuildPrompt
\* ------------------------------------------------------------------------
VARIABLES
    diff,           \* the diff argument
    pass,           \* 1 for the call on a git diff, 2.. when run on its own output
    pc,             \* "call" | "loop" | "ret" | "prompt"
    files,          \* files (splitByFiles(diff))
    idx,            \* number of completed iterations of the range loop
    truncatedFile,  \* truncatedFile of the last iteration
    result,         \* the builder `result`
    stopped,        \* the loop was left by break
    prompt          \* the value BuildPrompt returned

VARIABLES
    promptArgs,     \* the arguments of the BuildPrompt call that made prompt
    gen,            \* one call of GenerateCommitMessage: its arguments, the
                    \* provider's answer and the value returned
    model,          \* the tui Model
    pending,        \* the commands Update returned that have not delivered
                    \* their message yet
    provider,       \* the calls made to the language-model provider
    repo,           \* the git repository: changed and staged paths, commits
    typed,          \* the number of characters typed so far
    program,        \* "running", or how the program ended: "quit" (tea.Quit)
                    \* or "panic"
    cfg,            \* one call of config.Load: the path, the files, the
                    \* environment and the value returned
    keyMsg          \* the key of the tea.KeyMsg Update handled last, where the
                    \* keys are followed one by one; "" before the first

\* The variables of BuildPrompt and truncateDiff.
tvars == <<diff, pass, pc, files, idx, truncatedFile, result, stopped, prompt, promptArgs>>

\* BuildPrompt has not been called.
NoArgs == [called |-> FALSE]

\* The variables of the session.
svars == <<model, pending, provider, repo, typed, program>>

vars == <<tvars, gen, svars, cfg, keyMsg>>

\* config.Load has not been called.
NotLoaded == [pc |-> "idle"]

\* No call of GenerateCommitMessage is being followed.
GenIdle == [pc |-> "idle"]

\* tui.New has not run: there is no Model, no command and no provider call.
SessionNotStarted ==
    /\ model = [state |-> "notStarted"]
    /\ pending = <<>>
    /\ provider = <<>>
    /\ repo = [changed |-> {}, staged |-> {}, log |-> <<>>]
    /\ typed = 0
    /\ program = "notStarted"

Sentinel == <<"", "... (remaining files truncated) ...">>

Init ==
    /\ diff \in Diffs
    /\ pass = 1
    /\ pc = "call"
    /\ files = <<>>
    /\ idx = 0
    /\ truncatedFile = EmptyText
    /\ result = EmptyText
    /\ stopped = FALSE
    /\ prompt = EmptyText
    /\ promptArgs = NoArgs
    /\ gen = GenIdle
    /\ cfg = NotLoaded
    /\ keyMsg = ""
    /\ SessionNotStarted

\* prompt.go:96-97
Call ==
    /\ pc = "call"
    /\ files' = splitByFiles(diff)
    /\ result' = EmptyText
    /\ idx' = 0
    /\ stopped' = FALSE
    /\ pc' = "loop"
    /\ UNCHANGED <<diff, pass, truncatedFile, prompt>>
    /\ UNCHANGED <<promptArgs, gen, svars, cfg, keyMsg>>

\* A variant of the iteration without the break of line 107: the sentinel is
\* written and the loop goes on; C5 tells it from the source.
LoopBodyNoBreak ==
    /\ pc = "loop"
    /\ ~stopped
    /\ idx < Len(files)
    /\ LET tf      == truncateFile(files[idx + 1])
           written == Cat(result, tf)
       IN  /\ truncatedFile' = tf
           /\ result' = IF TextLen(written) > MaxDiffSize
                        THEN Cat(written, Sentinel)
                        ELSE written
           /\ stopped' = FALSE
    /\ idx' = idx + 1
    /\ UNCHANGED <<diff, pass, pc, files, prompt>>
    /\ UNCHANGED <<promptArgs, gen, svars, cfg, keyMsg>>

\* A variant of the iteration that tests the budget before it writes the
\* section, so that the section crossing the budget is left out; C6 tells it
\* from the source.
LoopBodyChecksFirst ==
    /\ pc = "loop"
    /\ ~stopped
    /\ idx < Len(files)
    /\ LET tf == truncateFile(files[idx + 1])
       IN  /\ truncatedFile' = tf
           /\ IF TextLen(result) + TextLen(tf) > MaxDiffSize
              THEN /\ result' = Cat(result, Sentinel)
                   /\ stopped' = TRUE
              ELSE /\ result' = Cat(result, tf)
                   /\ stopped' = FALSE
    /\ idx' = idx + 1
    /\ UNCHANGED <<diff, pass, pc, files, prompt>>
    /\ UNCHANGED <<promptArgs, gen, svars, cfg, keyMsg>>

\* prompt.go:99-109, one iteration
LoopBody ==
    /\ pc = "loop"
    /\ ~stopped
    /\ idx < Len(files)
    /\ LET file    == files[idx + 1]
           tf      == truncateFile(file)
           written == Cat(result, tf)
       IN  /\ truncatedFile' = tf
           /\ IF TextLen(written) > MaxDiffSize
              THEN /\ result' = Cat(written, Sentinel)
                   /\ stopped' = TRUE
              ELSE /\ result' = written
                   /\ stopped' = FALSE
    /\ idx' = idx + 1
    /\ UNCHANGED <<diff, pass, pc, files, prompt>>
    /\ UNCHANGED <<promptArgs, gen, svars, cfg, keyMsg>>

\* prompt.go:111
Return ==
    /\ pc = "loop"
    /\ stopped \/ idx = Len(files)
    /\ pc' = "ret"
    /\ UNCHANGED <<diff, pass, files, idx, truncatedFile, result, stopped, prompt>>
    /\ UNCHANGED <<promptArgs, gen, svars, cfg, keyMsg>>

\* prompt.go:53-88, with the result of truncateDiff(diff) in hand
BuildPromptReturn ==
    /\ pc = "ret"
    /\ pass = 1
    /\ \E conventional \in BOOLEAN, types \in TypeLists, previousMsg \in PreviousMsgs,
          feedback \in Feedbacks, customInstructions \in CustomInstructions :
           /\ prompt' = BuildPrompt(FileNames, result, conventional, types,
                                    customInstructions, previousMsg, feedback)
           /\ promptArgs' = [called |-> TRUE, files |-> FileNames, diff |-> diff,
                             conventional |-> conventional, types |-> types,
                             customInstructions |-> customInstructions,
                             previousMsg |-> previousMsg, feedback |-> feedback]
    /\ pc' = "prompt"
    /\ UNCHANGED <<diff, pass, files, idx, truncatedFile, result, stopped>>
    /\ UNCHANGED <<gen, svars, cfg, keyMsg>>

\* truncateDiff called again on the text it returned
Rerun ==
    /\ pc = "ret"
    /\ pass < MaxPasses
    /\ diff' = result
    /\ pass' = pass + 1
    /\ pc' = "call"
    /\ files' = <<>>
    /\ idx' = 0
    /\ truncatedFile' = EmptyText
    /\ result' = EmptyText
    /\ stopped' = FALSE
    /\ UNCHANGED prompt
    /\ UNCHANGED <<promptArgs, gen, svars, cfg, keyMsg>>

Next == Call \/ LoopBody \/ Return \/ BuildPromptReturn \/ Rerun

Spec == Init /\ [][Next]_vars

TypeOK ==
    /\ pc \in {"call", "loop", "ret", "prompt"}
    /\ pass \in 1..MaxPasses
    /\ idx \in 0..Len(files)
    /\ stopped \in BOOLEAN

\* ------------------------------------------------------------------------
\* Reading a section and its rendering back: hunks and markers
\* ------------------------------------------------------------------------
\* The indices of the "@@" lines of ls, in order.
HunkHeads(ls) == SelectSeq([i \in 1..Len(ls) |-> i], LAMBDA i : HasPrefix(ls[i], "@@"))

\* The k-th hunk of ls: from its "@@" line up to the next one or the end.
HunkOf(ls, k) ==
    LET hs == HunkHeads(ls)
    IN  SubSeq(ls, hs[k], IF k < Len(hs) THEN hs[k + 1] - 1 ELSE Len(ls))

\* The lines before the first "@@" line.
HeaderOf(ls) ==
    LET hs == HunkHeads(ls)
    IN  IF Len(hs) = 0 THEN ls ELSE SubSeq(ls, 1, hs[1] - 1)

\* The lines of a text that ends with a newline.
LinesOf(t) == SubSeq(t, 1, Len(t) - 1)

\* s without the empty strings at its end.
StripEmpty(s) ==
    LET ne == {i \in 1..Len(s) : s[i] # ""}
    IN  IF ne = {} THEN <<>> ELSE SubSeq(s, 1, CHOOSE i \in ne : \A j \in ne : j <= i)

Digits == <<"0", "1", "2", "3", "4", "5", "6", "7", "8", "9">>
IsDigit(s, i) == i <= Len(s) /\ \E d \in 1..10 : SubSeq(s, i, i) = Digits[d]
DigitVal(c) == (CHOOSE d \in 1..10 : Digits[d] = c) - 1

RECURSIVE DigitsEnd(_, _)
\* The index after the digits of s that start at i.
DigitsEnd(s, i) == IF IsDigit(s, i) THEN DigitsEnd(s, i + 1) ELSE i

RECURSIVE NatOf(_, _, _)
\* The number written by the digits of s at i..j-1.
NatOf(s, i, j) ==
    IF j <= i THEN 0 ELSE NatOf(s, i, j - 1) * 10 + DigitVal(SubSeq(s, j - 1, j - 1))

MarkerPrefix == "... [lines "

\* The three numbers a marker line carries.
MarkerFields(l) ==
    LET a == Len(MarkerPrefix) + 1
        b == DigitsEnd(l, a)
        c == DigitsEnd(l, b + 1)
        d == DigitsEnd(l, c + 2)
    IN  [start |-> NatOf(l, a, b), end |-> NatOf(l, b + 1, c), count |-> NatOf(l, c + 2, d)]

IsMarkerLine(l) ==
    /\ HasPrefix(l, MarkerPrefix)
    /\ LET f == MarkerFields(l) IN l = Marker(f.start, f.end, f.count)

MarkerSlots(out) == {j \in 1..Len(out) : IsMarkerLine(out[j])}

RECURSIVE SumCounts(_, _)
SumCounts(out, ms) ==
    IF ms = {} THEN 0
    ELSE LET m == CHOOSE x \in ms : TRUE
         IN  MarkerFields(out[m]).count + SumCounts(out, ms \ {m})

\* The number of lines of the hunk that the slots before j of its rendering
\* account for: one per line emitted, the count of each marker.
ConsumedBefore(out, j) ==
    LET before == {m \in MarkerSlots(out) : m < j}
    IN  (j - 1 - Cardinality(before)) + SumCounts(out, before)

\* The section the last iteration rendered, as the lines truncateFile reads,
\* and the lines of its rendering.
Rendered == pc = "loop" /\ idx >= 1
SectionLines == files[idx]
RenderedLines == LinesOf(truncatedFile)
NumHunks == Len(HunkHeads(SectionLines))
\* The k-th hunk as truncateHunk receives it, and what is emitted for it.
HunkIn(k) == HunkOf(SectionLines, k)
HunkOut(k) == HunkOf(RenderedLines, k)
\* The content lines of the k-th hunk: those after the header, without the
\* empty strings that the final newlines of the section leave.
ContentOf(k) == Tail(StripEmpty(HunkIn(k)))
FreshHunk(k) == \A i \in 1..Len(HunkIn(k)) : ~IsMarkerLine(HunkIn(k)[i])

\* ------------------------------------------------------------------------
\* C1
\* ------------------------------------------------------------------------
\* C1 as stated: a hunk with at most ShowLines content lines (header not
\* counted) is emitted as its header and its content lines, with no marker.
C1_AsStated ==
    Rendered =>
        \A k \in 1..NumHunks :
            Len(ContentOf(k)) <= ShowLines =>
                /\ StripEmpty(HunkOut(k)) = StripEmpty(HunkIn(k))
                /\ MarkerSlots(HunkOut(k)) = MarkerSlots(HunkIn(k))

\* C1, what the code does: a hunk that has at most ShowLines lines as truncateHunk
\* receives it (the @@ header, the content lines and, for the last hunk of
\* a section, the empty strings after the final newlines) is emitted line
\* for line, with no marker and no line added or removed.
C1_NoOpWithinShowLines ==
    Rendered =>
        \A k \in 1..NumHunks :
            Len(HunkIn(k)) <= ShowLines => HunkOut(k) = HunkIn(k)

\* A hunk of exactly ShowLines content lines has been rendered, with a
\* marker in place of its last line.
C1_Witness ==
    /\ Rendered
    /\ \E k \in 1..NumHunks :
           /\ Len(ContentOf(k)) = ShowLines
           /\ FreshHunk(k)
           /\ MarkerSlots(HunkOut(k)) # {}
           /\ Len(HunkOut(k)) = Len(HunkIn(k))
\* ------------------------------------------------------------------------
\* C2
\* ------------------------------------------------------------------------
Period == ShowLines + SkipLines
CeilDiv(a, b) == (a + b - 1) \div b
\* Lines emitted verbatim and markers emitted for a hunk of n > ShowLines
\* lines: every full period shows ShowLines lines, the rest shows at most
\* ShowLines; a marker follows each shown segment that is not the last.
ShownCount(n) == (n \div Period) * ShowLines + Min(n % Period, ShowLines)
MarkerCount(n) == CeilDiv(n - ShowLines, Period)

VerbatimOut(k) == Len(HunkOut(k)) - Cardinality(MarkerSlots(HunkOut(k)))

\* C2 as stated: a hunk of N > ShowLines lines has
\* ceil(N / (ShowLines+SkipLines)) * ShowLines lines emitted verbatim,
\* capped at N.
C2_AsStated ==
    Rendered =>
        \A k \in 1..NumHunks :
            LET n == Len(HunkIn(k))
            IN  (n > ShowLines /\ FreshHunk(k)) =>
                    VerbatimOut(k) = Min(CeilDiv(n, Period) * ShowLines, n)

\* C2, amended: a hunk of N > ShowLines lines (as truncateHunk receives it)
\* has floor(N / P) * ShowLines + min(N mod P, ShowLines) lines emitted
\* verbatim, P = ShowLines + SkipLines, and ceil((N - ShowLines) / P)
\* markers; a 500-line hunk gives segments of 100, 100, 100 and 50 lines
\* (positions 0-99, 150-249, 300-399, 450-499), 3 markers, 350 lines shown.
C2_ShownAndMarkerCounts ==
    Rendered =>
        \A k \in 1..NumHunks :
            LET n   == Len(HunkIn(k))
                in  == HunkIn(k)
                out == HunkOut(k)
            IN  (n > ShowLines /\ FreshHunk(k)) =>
                    /\ VerbatimOut(k) = ShownCount(n)
                    /\ Cardinality(MarkerSlots(out)) = MarkerCount(n)
                    /\ n = 500 =>
                        /\ VerbatimOut(k) = 350
                        /\ MarkerSlots(out) = {101, 202, 303}
                        /\ SubSeq(out, 1, 100) = SubSeq(in, 1, 100)
                        /\ SubSeq(out, 102, 201) = SubSeq(in, 151, 250)
                        /\ SubSeq(out, 203, 302) = SubSeq(in, 301, 400)
                        /\ SubSeq(out, 304, 353) = SubSeq(in, 451, 500)
                        /\ Len(out) = 353

C2_Witness ==
    /\ Rendered
    /\ \E k \in 1..NumHunks :
           /\ Len(HunkIn(k)) = 500
           /\ FreshHunk(k)
           /\ Cardinality(MarkerSlots(HunkOut(k))) = 3

\* ------------------------------------------------------------------------
\* C3
\* ------------------------------------------------------------------------
\* What C3 says of a marker at slot m of the rendering `out` of hunk `in`,
\* with the marker's range read as positions base + 1, base + 2, ... where
\* position 1 is in[first]: the range starts right after the lines
\* accounted for before the marker, end - start + 1 is the count, the line
\* before the range is the line emitted before the marker and the line
\* after the range is the line emitted after it.
MarkerNamesRange(in, out, m, first) ==
    LET f    == MarkerFields(out[m])
        from == f.start + first - 1
        to   == f.end + first - 1
    IN  /\ f.count >= 1
        /\ f.end - f.start + 1 = f.count
        /\ from = ConsumedBefore(out, m) + 1
        /\ to <= Len(in)
        /\ out[m - 1] = in[from - 1]
        /\ IF m < Len(out) THEN out[m + 1] = in[to + 1] ELSE to = Len(in)

\* C3 as stated: positions count the content lines, the @@ header excluded
\* (position 1 is the first content line, the second line of the hunk).
C3_AsStated ==
    Rendered =>
        \A k \in 1..NumHunks :
            FreshHunk(k) =>
                \A m \in MarkerSlots(HunkOut(k)) :
                    MarkerNamesRange(HunkIn(k), HunkOut(k), m, 2)

\* C3, what the code does: positions count the lines of the hunk as truncateHunk
\* receives it, the @@ header being line 1.
C3_MarkerRangeCountsHeader ==
    Rendered =>
        \A k \in 1..NumHunks :
            FreshHunk(k) =>
                \A m \in MarkerSlots(HunkOut(k)) :
                    MarkerNamesRange(HunkIn(k), HunkOut(k), m, 1)

C3_Witness ==
    /\ Rendered
    /\ \E k \in 1..NumHunks :
           /\ FreshHunk(k)
           /\ Cardinality(MarkerSlots(HunkOut(k))) >= 2
           /\ \E m \in MarkerSlots(HunkOut(k)) :
                  MarkerFields(HunkOut(k)[m]).count \in 2..(SkipLines - 1)

SentinelText == Sentinel[2]
SentinelCount(t) == Cardinality({i \in 1..Len(t) : t[i] = SentinelText})

\* The renderings of the file sections.
Renderings == [k \in 1..Len(files) |-> truncateFile(files[k])]

RECURSIVE CatAll(_, _)
\* The first k texts of ts, concatenated.
CatAll(ts, k) == IF k = 0 THEN EmptyText ELSE Cat(CatAll(ts, k - 1), ts[k])

RECURSIVE CumLen(_, _)
\* The length of the first k texts of ts together.
CumLen(ts, k) == IF k = 0 THEN 0 ELSE CumLen(ts, k - 1) + TextLen(ts[k])

\* The sections after whose append the cumulative length exceeds the budget.
Breaches(ts) == {k \in 1..Len(ts) : CumLen(ts, k) > MaxDiffSize}
FirstBreach(ts) == CHOOSE k \in Breaches(ts) : \A j \in Breaches(ts) : k <= j

\* The lines sub occur in t as one block.
Occurs(t, sub) ==
    \E o \in {i \in 1..(Len(t) - Len(sub) + 1) : t[i] = sub[1]} :
        SubSeq(t, o, o + Len(sub) - 1) = sub

\* The sections whose rendering is present in full in the result.
PresentIn(t, ts) == {k \in 1..Len(ts) : Occurs(t, LinesOf(ts[k]))}

Returned == pc = "ret"

\* ------------------------------------------------------------------------
\* C5
\* ------------------------------------------------------------------------
\* C5 as stated: when the renderings together exceed MaxDiffSize, the result
\* holds the sentinel exactly once and the sections present in full are a
\* strict prefix of the sections.
C5_AsStated ==
    Returned =>
        LET ts == Renderings
        IN  CumLen(ts, Len(ts)) > MaxDiffSize =>
                /\ SentinelCount(result) = 1
                /\ \E m \in 0..(Len(ts) - 1) : PresentIn(result, ts) = 1..m

\* C5, amended: when the renderings together exceed MaxDiffSize, the result
\* ends with the sentinel, appended exactly once, and the sections present
\* in full are those up to and including the first one at which the
\* cumulative length exceeds MaxDiffSize: a strict prefix of the sections
\* unless that section is the last, when every section is present.
C5_SentinelOnceAndPrefix ==
    Returned =>
        LET ts == Renderings
            n  == Len(ts)
        IN  CumLen(ts, n) > MaxDiffSize =>
                LET m == FirstBreach(ts)
                IN  /\ result[Len(result)] = SentinelText
                    /\ SentinelCount(result) = SentinelCount(CatAll(ts, m)) + 1
                    /\ PresentIn(result, ts) = 1..m
                    /\ m = n <=> CumLen(ts, n - 1) <= MaxDiffSize

C5_Witness ==
    /\ Returned
    /\ Len(files) >= 3
    /\ CumLen(Renderings, Len(files)) > MaxDiffSize
    /\ PresentIn(result, Renderings) = 1..2

\* A state in which the section that crosses the budget is the last one.
C5_AllPresent ==
    /\ Returned
    /\ Len(files) >= 2
    /\ CumLen(Renderings, Len(files)) > MaxDiffSize
    /\ PresentIn(result, Renderings) = 1..Len(files)

C6_ExactBudget ==
    /\ Returned
    /\ Len(files) = 2
    /\ CumLen(Renderings, 1) = MaxDiffSize
    /\ idx = 2

\* ------------------------------------------------------------------------
\* C7
\* ------------------------------------------------------------------------
IsGitLine(l) == HasPrefix(l, "diff --git")

RECURSIVE SectionLinesUpTo(_, _)
\* The lines of the first k sections, in order.
SectionLinesUpTo(fs, k) ==
    IF k = 0 THEN <<>> ELSE SectionLinesUpTo(fs, k - 1) \o LinesOf(fs[k])

Split_Done == pc = "loop" /\ idx = 0

\* C7: the sections are the lines of the diff in order, each line followed
\* by a newline, a new section starting exactly at each "diff --git" line:
\* every section but a leading one starts with such a line, no section
\* holds one after its first line, and there is a leading section exactly
\* when the diff does not start with a "diff --git" line.
C7_SectionsSplitAtGitLines ==
    Split_Done =>
        LET n == Len(files)
        IN  /\ SectionLinesUpTo(files, n) = diff
            /\ \A k \in 1..n :
                   /\ Len(files[k]) >= 2
                   /\ files[k][Len(files[k])] = ""
                   /\ k >= 2 => IsGitLine(files[k][1])
                   /\ \A i \in 2..(Len(files[k]) - 1) : ~IsGitLine(files[k][i])
            /\ n = Cardinality({i \in 2..Len(diff) : IsGitLine(diff[i])}) + 1
            /\ IsGitLine(files[1][1]) <=> IsGitLine(diff[1])

C7_Witness ==
    /\ Split_Done
    /\ Len(files) = 2
    /\ ~IsGitLine(files[1][1])
    /\ IsGitLine(files[2][1])
    /\ Len(files[2]) > 3

\* ------------------------------------------------------------------------
\* C8
\* ------------------------------------------------------------------------
NoHunkLine(t) == \A i \in 1..Len(t) : ~HasPrefix(t[i], "@@")
NoGitLine(t) == \A i \in 1..Len(t) : ~IsGitLine(t[i])

C8_PlainText ==
    /\ Rendered
    /\ diff \in {EmptyText, LargeDiff}
    /\ RenderedLines = diff \o <<"">>

\* ------------------------------------------------------------------------
\* C9
\* ------------------------------------------------------------------------
\* The notice and the run TestBuildPromptDiffTruncation looks for
\* (ai_test.go:199, 204).
TruncatedNotice == "... (truncated)"
KeptRunLen == 9000
KeptRun == Rep("a", KeptRunLen)

\* C9: the prompt built for the 10000-character diff holds the notice
\* "... (truncated)" and no run of 9000 characters of the diff.
C9_AsStated ==
    (pc = "prompt" /\ diff = LargeDiff) =>
        /\ Contains(prompt, TruncatedNotice)
        /\ ~Contains(prompt, KeptRun)

C9_Witness ==
    /\ pc = "prompt"
    /\ diff = LargeDiff
    /\ Contains(prompt, KeptRun)
    /\ ~Contains(prompt, TruncatedNotice)

\* ------------------------------------------------------------------------
\* C10
\* ------------------------------------------------------------------------
HasMarkerLine(t) == \E i \in 1..Len(t) : IsMarkerLine(t[i])
SmallHunks(fs) ==
    \A s \in 1..Len(fs) :
        \A k \in 1..Len(HunkHeads(fs[s])) :
            Len(Tail(StripEmpty(HunkOf(fs[s], k)))) < ShowLines

\* C10: truncation of a text that already holds marker lines (its own
\* output among them) and whose hunks all have fewer than ShowLines content
\* lines adds no marker and returns the text unchanged.
C10_AsStated ==
    (Returned /\ HasMarkerLine(diff) /\ SmallHunks(files)) =>
        /\ Cardinality(MarkerSlots(result)) = Cardinality(MarkerSlots(diff))
        /\ result = diff

\* A text with a marker and one hunk of fewer than ShowLines content lines
\* has been returned with one more marker.
C10_Witness ==
    /\ Returned
    /\ HasMarkerLine(diff)
    /\ SmallHunks(files)
    /\ Cardinality(MarkerSlots(result)) = Cardinality(MarkerSlots(diff)) + 1

\* A second pass over a text with markers and small hunks has returned a
\* longer text with the same markers.
C10_Grows ==
    /\ Returned
    /\ pass >= 2
    /\ HasMarkerLine(diff)
    /\ SmallHunks(files)
    /\ MarkerSlots(result) = MarkerSlots(diff)
    /\ TextLen(result) > TextLen(diff)
\* ========================================================================
\* The AI client (internal/ai/openai.go)
\* ========================================================================
\* ------------------------------------------------------------------------
\* CommitMessage (openai.go:18-40).  Type, Scope, Subject and Body are
\* strings (piece sequences), Files a sequence of strings.
\* ------------------------------------------------------------------------
CommitMessage(type, scope, subject, body, fs) ==
    [Type |-> type, Scope |-> scope, Subject |-> subject, Body |-> body, Files |-> fs]

\* The zero value of CommitMessage.
ZeroCommit == CommitMessage(EmptyText, EmptyText, EmptyText, EmptyText, <<>>)

\* func (c *CommitMessage) String() string, openai.go:26-40
\* A variant of String that writes the parentheses of the scope whether or
\* not there is a scope.
StringAlwaysScope(c) ==
    LET msg1 == IF c.Type # EmptyText
                THEN Cat(Cat(Cat(Cat(c.Type, Str("(")), c.Scope), Str(")")), Str(": "))
                ELSE EmptyText
        msg2 == Cat(msg1, c.Subject)
    IN  IF c.Body # EmptyText THEN Cat(Cat(msg2, <<"", "", "">>), c.Body) ELSE msg2

String(c) ==
    LET msg0 == EmptyText
        msg1 == IF c.Type # EmptyText
                THEN LET t == c.Type
                         s == IF c.Scope # EmptyText
                              THEN Cat(Cat(Cat(t, Str("(")), c.Scope), Str(")"))
                              ELSE t
                     IN  Cat(s, Str(": "))
                ELSE msg0
        msg2 == Cat(msg1, c.Subject)
    IN  IF c.Body # EmptyText THEN Cat(Cat(msg2, <<"", "", "">>), c.Body) ELSE msg2

\* ------------------------------------------------------------------------
\* JSON documents and json.Unmarshal into CommitMessage and SplitCommits
\* (openai.go:18-24, 43-45, 181, 192).  A document is text that is not
\* JSON ("invalid") or a value: null, a string, a number, an array of
\* values, an object (a function from its keys to values).
\* ------------------------------------------------------------------------
JInvalid == [k |-> "invalid"]
JNull == [k |-> "null"]
JNum == [k |-> "number"]
JStr(t) == [k |-> "string", s |-> t]
JArr(a) == [k |-> "array", a |-> a]
JObj(o) == [k |-> "object", o |-> o]

\* The value of key in object o; a key that is absent leaves the field as
\* it is, as the value null does.
Field(o, key) == IF key \in DOMAIN o THEN o[key] ELSE JNull

\* Decoding into a string field: a string is stored, null leaves the field,
\* anything else is an UnmarshalTypeError.
StringOK(v) == v.k \in {"string", "null"}
StringVal(v) == IF v.k = "string" THEN v.s ELSE EmptyText

\* Decoding into a []string field.
StringsOK(v) ==
    \/ v.k = "null"
    \/ v.k = "array" /\ \A i \in 1..Len(v.a) : StringOK(v.a[i])
StringsVal(v) ==
    IF v.k = "array" THEN [i \in 1..Len(v.a) |-> StringVal(v.a[i])] ELSE <<>>

\* Decoding into a CommitMessage: no field is required.
CommitOK(v) ==
    \/ v.k = "null"
    \/ /\ v.k = "object"
       /\ \A key \in {"type", "scope", "subject", "body"} : StringOK(Field(v.o, key))
       /\ StringsOK(Field(v.o, "files"))
CommitVal(v) ==
    IF v.k = "object"
    THEN CommitMessage(StringVal(Field(v.o, "type")), StringVal(Field(v.o, "scope")),
                       StringVal(Field(v.o, "subject")), StringVal(Field(v.o, "body")),
                       StringsVal(Field(v.o, "files")))
    ELSE ZeroCommit

\* Decoding into SplitCommits: the field "commits" is a []CommitMessage.
CommitsOK(v) ==
    \/ v.k = "null"
    \/ v.k = "array" /\ \A i \in 1..Len(v.a) : CommitOK(v.a[i])
CommitsVal(v) ==
    IF v.k = "array" THEN [i \in 1..Len(v.a) |-> CommitVal(v.a[i])] ELSE <<>>
SplitOK(v) ==
    \/ v.k = "null"
    \/ v.k = "object" /\ CommitsOK(Field(v.o, "commits"))
SplitVal(v) == IF v.k = "object" THEN CommitsVal(Field(v.o, "commits")) ELSE <<>>

\* ------------------------------------------------------------------------
\* GenerateCommitMessage (openai.go:146-214) from the provider's answer on:
\* resp = [err, Choices], a choice = [ToolCalls, Content], a tool call =
\* [Name, Arguments].  The value is (*GenerateResult, error).
\* ------------------------------------------------------------------------
Failure(reason) == [ok |-> FALSE, Commits |-> <<>>, IsSplit |-> FALSE, err |-> reason]
GenerateResult(cs, split) == [ok |-> TRUE, Commits |-> cs, IsSplit |-> split, err |-> ""]

\* A variant of the fallback that takes the content as subject even when
\* the content is empty.
FallbackAcceptsEmpty(fs, content) ==
    GenerateResult(<<CommitMessage(EmptyText, EmptyText, content, EmptyText, fs)>>, FALSE)

\* The fallback on the content of the choice, openai.go:202-213.
Fallback(fs, content) ==
    IF content # EmptyText
    THEN GenerateResult(
             <<CommitMessage(EmptyText, EmptyText, content, EmptyText, fs)>>, FALSE)
    ELSE Failure("AI did not return a commit message")

\* A variant of GenerateCommitMessage that falls back on the content when
\* the arguments of the tool call do not parse.
GenerateCommitMessageDowngrades(fs, resp) ==
    IF resp.err THEN Failure("AI request failed")
    ELSE IF Len(resp.Choices) = 0 THEN Failure("no response from AI")
    ELSE LET choice == resp.Choices[1]
         IN  IF Len(choice.ToolCalls) > 0
             THEN LET toolCall == choice.ToolCalls[1]
                      args     == toolCall.Arguments
                  IN  IF toolCall.Name = "submit_commit"
                         /\ args.k # "invalid" /\ CommitOK(args)
                      THEN GenerateResult(
                               <<[CommitVal(args) EXCEPT !.Files = fs]>>, FALSE)
                      ELSE IF toolCall.Name = "split_commits"
                              /\ args.k # "invalid" /\ SplitOK(args)
                      THEN GenerateResult(SplitVal(args), TRUE)
                      ELSE Fallback(fs, choice.Content)
             ELSE Fallback(fs, choice.Content)

GenerateCommitMessage(fs, resp) ==
    IF resp.err THEN Failure("AI request failed")
    ELSE IF Len(resp.Choices) = 0 THEN Failure("no response from AI")
    ELSE LET choice == resp.Choices[1]
         IN  IF Len(choice.ToolCalls) > 0
             THEN LET toolCall == choice.ToolCalls[1]
                      args     == toolCall.Arguments
                  IN  IF toolCall.Name = "submit_commit"
                      THEN IF args.k = "invalid" \/ ~CommitOK(args)
                           THEN Failure("failed to parse commit message")
                           ELSE GenerateResult(
                                    <<[CommitVal(args) EXCEPT !.Files = fs]>>, FALSE)
                      ELSE IF toolCall.Name = "split_commits"
                      THEN IF args.k = "invalid" \/ ~SplitOK(args)
                           THEN Failure("failed to parse split commits")
                           ELSE GenerateResult(SplitVal(args), TRUE)
                      ELSE Fallback(fs, choice.Content)
             ELSE Fallback(fs, choice.Content)

\* ------------------------------------------------------------------------
\* One call of GenerateCommitMessage, followed from the provider's answer to
\* the rendering of the commits it returned.
\* ------------------------------------------------------------------------

\* The selected files the caller passes.
SelectedSets == {<<Str("a.go")>>, <<Str("a.go"), Str("b.go")>>}

\* The messages of TestCommitMessageString (ai_test.go:16-65) with the
\* renderings the test expects.
StringTests ==
    << [msg |-> CommitMessage(Str("feat"), EmptyText, Str("add user authentication"),
                              EmptyText, <<>>),
        expected |-> Str("feat: add user authentication")],
       [msg |-> CommitMessage(Str("fix"), Str("auth"),
                              Str("prevent token expiration race condition"),
                              EmptyText, <<>>),
        expected |-> Str("fix(auth): prevent token expiration race condition")],
       [msg |-> CommitMessage(Str("docs"), EmptyText, Str("update README"),
                              Str("Added installation instructions for Homebrew users."),
                              <<>>),
        expected |-> <<"docs: update README", "",
                       "Added installation instructions for Homebrew users.">>],
       [msg |-> CommitMessage(Str("refactor"), Str("config"),
                              Str("extract validation logic"),
                              Str("Moved validation into separate functions for better testability."),
                              <<>>),
        expected |-> <<"refactor(config): extract validation logic", "",
                       "Moved validation into separate functions for better testability.">>],
       [msg |-> CommitMessage(EmptyText, EmptyText, Str("Update dependencies"),
                              EmptyText, <<>>),
        expected |-> Str("Update dependencies")],
       [msg |-> CommitMessage(Str("chore"), EmptyText, Str("update dependencies"),
                              EmptyText, <<>>),
        expected |-> Str("chore: update dependencies")] >>

\* The commits a payload may describe: every field empty or not, the body
\* on one line or on two.
PayloadCommits ==
    { CommitMessage(t, sc, su, b, <<>>) :
        t \in {EmptyText, Str("feat")}, sc \in {EmptyText, Str("auth")},
        su \in {EmptyText, Str("add login")},
        b \in {EmptyText, Str("why"), <<"why", "how">>} }
    \cup { StringTests[i].msg : i \in 1..Len(StringTests) }

\* The JSON object a model writes for a commit, every string field present.
Payload(c) ==
    JObj([key \in {"type", "scope", "subject", "body"} |->
            JStr(CASE key = "type" -> c.Type [] key = "scope" -> c.Scope
                   [] key = "subject" -> c.Subject [] OTHER -> c.Body)])

\* The same with a "files" array.
PayloadWithFiles(c, fs) ==
    JObj([key \in {"type", "scope", "subject", "body", "files"} |->
            IF key = "files" THEN JArr([i \in 1..Len(fs) |-> JStr(fs[i])])
            ELSE Payload(c).o[key]])

ToolCall(name, args) == [Name |-> name, Arguments |-> args]
Choice(toolCalls, content) == [ToolCalls |-> toolCalls, Content |-> content]
Response(choices) == [err |-> FALSE, Choices |-> choices]
TransportError == [err |-> TRUE, Choices |-> <<>>]

Feat == CommitMessage(Str("feat"), EmptyText, Str("add login"), EmptyText, <<>>)
Fix == CommitMessage(Str("fix"), Str("auth"), Str("check token"), Str("why"), <<>>)
Prose == Str("Here is a commit message")

\* Answers that are not a well-formed submit_commit call.
EdgeResponses ==
    << TransportError,
       Response(<<>>),
       \* submit_commit
       Response(<<Choice(<<ToolCall("submit_commit",
                    PayloadWithFiles(Feat, <<Str("other.go")>>))>>, EmptyText)>>),
       Response(<<Choice(<<ToolCall("submit_commit",
                    JObj([type |-> JStr(Str("fix"))]))>>, EmptyText)>>),
       Response(<<Choice(<<ToolCall("submit_commit",
                    JObj([subject |-> JStr(Str("add login"))]))>>, EmptyText)>>),
       Response(<<Choice(<<ToolCall("submit_commit", JObj(<<>>))>>, Prose)>>),
       Response(<<Choice(<<ToolCall("submit_commit", JNull)>>, EmptyText)>>),
       Response(<<Choice(<<ToolCall("submit_commit", JInvalid)>>, Prose)>>),
       Response(<<Choice(<<ToolCall("submit_commit", JInvalid)>>, EmptyText)>>),
       Response(<<Choice(<<ToolCall("submit_commit",
                    JObj([type |-> JStr(Str("fix")), subject |-> JNum]))>>, Prose)>>),
       Response(<<Choice(<<ToolCall("submit_commit",
                    JArr(<<Payload(Feat)>>))>>, Prose)>>),
       Response(<<Choice(<<ToolCall("submit_commit",
                    JObj([type |-> JStr(Str("fix")), subject |-> JStr(Str("x")),
                          files |-> JStr(Str("a.go"))]))>>, Prose)>>),
       \* split_commits
       Response(<<Choice(<<ToolCall("split_commits",
                    JObj([commits |-> JArr(<<PayloadWithFiles(Feat, <<Str("a.go")>>),
                                             PayloadWithFiles(Fix, <<Str("b.go")>>)>>)]))>>,
                  EmptyText)>>),
       Response(<<Choice(<<ToolCall("split_commits",
                    JObj([commits |-> JArr(<<PayloadWithFiles(Feat,
                                               <<Str("b.go"), Str("a.go")>>)>>)]))>>,
                  Prose)>>),
       Response(<<Choice(<<ToolCall("split_commits",
                    JObj([commits |-> JArr(<<PayloadWithFiles(Feat, <<Str("ghost.go")>>)>>)]))>>,
                  EmptyText)>>),
       Response(<<Choice(<<ToolCall("split_commits",
                    JObj([commits |-> JArr(<<PayloadWithFiles(Feat, <<Str("a.go")>>),
                                             Payload(Fix)>>)]))>>, EmptyText)>>),
       Response(<<Choice(<<ToolCall("split_commits",
                    JObj([commits |-> JArr(<<PayloadWithFiles(Feat, <<>>)>>)]))>>,
                  EmptyText)>>),
       Response(<<Choice(<<ToolCall("split_commits",
                    JObj([commits |-> JArr(<<JObj([type |-> JStr(Str("feat")),
                                                   files |-> JArr(<<JStr(Str("a.go"))>>)])>>)]))>>,
                  EmptyText)>>),
       Response(<<Choice(<<ToolCall("split_commits",
                    JObj([commits |-> JArr(<<JObj([subject |-> JStr(Str("add login")),
                                                   files |-> JArr(<<JStr(Str("a.go"))>>)])>>)]))>>,
                  EmptyText)>>),
       Response(<<Choice(<<ToolCall("split_commits",
                    JObj([commits |-> JArr(<<>>)]))>>, EmptyText)>>),
       Response(<<Choice(<<ToolCall("split_commits", JObj(<<>>))>>, Prose)>>),
       Response(<<Choice(<<ToolCall("split_commits", JNull)>>, EmptyText)>>),
       Response(<<Choice(<<ToolCall("split_commits", JInvalid)>>, Prose)>>),
       Response(<<Choice(<<ToolCall("split_commits",
                    JObj([commits |-> JStr(Str("feat: add login"))]))>>, Prose)>>),
       Response(<<Choice(<<ToolCall("split_commits",
                    JObj([commits |-> JArr(<<JStr(Str("feat: add login"))>>)]))>>,
                  Prose)>>),
       Response(<<Choice(<<ToolCall("split_commits",
                    JObj([commits |-> JArr(<<JObj([type |-> JStr(Str("feat")),
                                                   subject |-> JStr(Str("x")),
                                                   files |-> JArr(<<JNum>>)])>>)]))>>,
                  EmptyText)>>),
       \* neither tool
       Response(<<Choice(<<>>, Prose)>>),
       Response(<<Choice(<<>>, <<"fix: check token", "", "why">>)>>),
       Response(<<Choice(<<>>, EmptyText)>>),
       Response(<<Choice(<<ToolCall("search", JObj(<<>>))>>, Prose)>>),
       Response(<<Choice(<<ToolCall("search", JInvalid)>>, EmptyText)>>),
       Response(<<Choice(<<ToolCall("search", JNull),
                           ToolCall("submit_commit", Payload(Feat))>>, Prose)>>),
       Response(<<Choice(<<ToolCall("search", JNull),
                           ToolCall("submit_commit", JInvalid)>>, EmptyText)>>),
       \* two choices: only the first is read
       Response(<<Choice(<<>>, EmptyText),
                  Choice(<<ToolCall("submit_commit", Payload(Feat))>>, Prose)>>) >>

\* GenerateCommitMessage is called with the selected files; the request is
\* sent (openai.go:147-162) and the provider's answer is in hand.
GenRequest ==
    /\ gen = GenIdle
    /\ \E fs \in SelectedSets :
         \/ \E c \in PayloadCommits, content \in {EmptyText, Prose} :
              gen' = [pc |-> "answered", files |-> fs,
                      resp |-> Response(<<Choice(<<ToolCall("submit_commit", Payload(c))>>,
                                                 content)>>)]
         \/ \E i \in 1..Len(EdgeResponses) :
              gen' = [pc |-> "answered", files |-> fs, resp |-> EdgeResponses[i]]
    /\ UNCHANGED <<tvars, svars, cfg, keyMsg>>

\* openai.go:164-213: the answer is turned into (*GenerateResult, error).
GenReturn ==
    /\ gen.pc = "answered"
    /\ gen' = [pc |-> "returned", files |-> gen.files, resp |-> gen.resp,
               ret |-> GenerateCommitMessage(gen.files, gen.resp)]
    /\ UNCHANGED <<tvars, svars, cfg, keyMsg>>

\* The caller renders every commit of a result with String().
GenRender ==
    /\ gen.pc = "returned"
    /\ gen.ret.ok
    /\ gen' = [pc |-> "rendered", files |-> gen.files, resp |-> gen.resp,
               ret |-> gen.ret,
               rendered |-> [i \in 1..Len(gen.ret.Commits) |-> String(gen.ret.Commits[i])]]
    /\ UNCHANGED <<tvars, svars, cfg, keyMsg>>

GenInit ==
    /\ diff = EmptyText
    /\ pass = 1
    /\ pc = "idle"
    /\ files = <<>>
    /\ idx = 0
    /\ truncatedFile = EmptyText
    /\ result = EmptyText
    /\ stopped = FALSE
    /\ prompt = EmptyText
    /\ promptArgs = NoArgs
    /\ gen = GenIdle
    /\ cfg = NotLoaded
    /\ keyMsg = ""
    /\ SessionNotStarted

GenNext == GenRequest \/ GenReturn \/ GenRender

GenSpec == GenInit /\ [][GenNext]_vars

GenTypeOK ==
    /\ gen.pc \in {"idle", "answered", "returned", "rendered"}
    /\ gen.pc \in {"returned", "rendered"} => gen.ret.ok \in BOOLEAN

\* ------------------------------------------------------------------------
\* Claims about the AI client.
\* ------------------------------------------------------------------------

\* The rendering of a commit, put together from its parts: the head is the
\* subject alone when there is no type, else type, "(scope)" if there is a
\* scope, ": " and the subject; the body follows two newlines if there is one.
Rendering(c) ==
    LET scope == IF c.Scope # EmptyText
                 THEN Cat(Cat(Str("("), c.Scope), Str(")")) ELSE EmptyText
        head  == IF c.Type = EmptyText THEN c.Subject
                 ELSE Cat(Cat(Cat(c.Type, scope), Str(": ")), c.Subject)
    IN  IF c.Body = EmptyText THEN head ELSE Cat(Cat(head, <<"", "", "">>), c.Body)

\* C11: the string String() renders for each commit of a result is the type,
\* "(scope)" when the scope is not empty, ": " when the type is not empty,
\* then the subject, then two newlines and the body when the body is not
\* empty; with an empty type it is the subject (and the body, same rule).
\* The messages of TestCommitMessageString render as the test expects.
C11_StringFormat ==
    gen.pc = "rendered" =>
        \A i \in 1..Len(gen.ret.Commits) :
            LET c == gen.ret.Commits[i]
            IN  /\ gen.rendered[i] = Rendering(c)
                /\ c.Type = EmptyText /\ c.Body = EmptyText => gen.rendered[i] = c.Subject
                /\ \A t \in 1..Len(StringTests) :
                       [c EXCEPT !.Files = <<>>] = StringTests[t].msg
                           => gen.rendered[i] = StringTests[t].expected

\* C11 witness: a commit with type, scope, subject and body was rendered on
\* three lines.
C11_Witness ==
    /\ gen.pc = "rendered"
    /\ gen.rendered[1] = <<"refactor(config): extract validation logic", "",
                           "Moved validation into separate functions for better testability.">>
    /\ Len(gen.ret.Commits) = 1
    /\ gen.ret.Commits[1].Scope = Str("config")

\* The call has returned.
GenDone == gen.pc \in {"returned", "rendered"}

\* The first tool call of the first choice has this name.
FirstToolIs(name) ==
    /\ ~gen.resp.err
    /\ Len(gen.resp.Choices) > 0
    /\ Len(gen.resp.Choices[1].ToolCalls) > 0
    /\ gen.resp.Choices[1].ToolCalls[1].Name = name

FirstArgs == gen.resp.Choices[1].ToolCalls[1].Arguments

\* A JSON value that is no object, or an object without the key (or with
\* null for it).
Lacks(v, key) == v.k # "object" \/ Field(v.o, key).k = "null"

\* The payload of the tool call is JSON and lacks a field its tool's schema
\* requires (openai.go:73, 115, 119).
LacksRequired ==
    \/ /\ FirstToolIs("submit_commit")
       /\ FirstArgs.k # "invalid"
       /\ Lacks(FirstArgs, "type") \/ Lacks(FirstArgs, "subject")
    \/ /\ FirstToolIs("split_commits")
       /\ FirstArgs.k # "invalid"
       /\ \/ Lacks(FirstArgs, "commits")
          \/ /\ Field(FirstArgs.o, "commits").k = "array"
             /\ \E i \in 1..Len(Field(FirstArgs.o, "commits").a) :
                  \E key \in {"type", "subject", "files"} :
                      Lacks(Field(FirstArgs.o, "commits").a[i], key)

\* C12, as stated: a tool-call payload that lacks a required field makes
\* GenerateCommitMessage return an error, and no commit it returns has an
\* empty subject.
C12_AsStated ==
    GenDone =>
        /\ LacksRequired => ~gen.ret.ok
        /\ gen.ret.ok => \A i \in 1..Len(gen.ret.Commits) :
                             gen.ret.Commits[i].Subject # EmptyText

\* C12 witness: a split_commits payload whose second commit has no "files"
\* was returned as a result, the commit with an empty file list.
C12_Witness ==
    /\ GenDone
    /\ FirstToolIs("split_commits")
    /\ LacksRequired
    /\ gen.ret.ok
    /\ gen.ret.IsSplit
    /\ Len(gen.ret.Commits) = 2
    /\ gen.ret.Commits[1].Files = <<Str("a.go")>>
    /\ gen.ret.Commits[2].Files = <<>>
    /\ gen.ret.Commits[2].Subject = Str("check token")

\* C12 second witness: a submit_commit payload with a type and no subject was
\* returned as a commit with an empty subject.
C12_EmptySubject ==
    /\ GenDone
    /\ FirstToolIs("submit_commit")
    /\ Lacks(FirstArgs, "subject")
    /\ gen.ret.ok
    /\ gen.ret.Commits[1].Type = Str("fix")
    /\ gen.ret.Commits[1].Subject = EmptyText

\* The file list the payload gives for its i-th commit.
GivenFiles(i) == StringsVal(Field(Field(FirstArgs.o, "commits").a[i].o, "files"))

\* The files of a split result are the payload's, commit by commit.
FilesAsGiven ==
    /\ FirstToolIs("split_commits")
    /\ \A i \in 1..Len(gen.ret.Commits) :
           /\ Field(Field(FirstArgs.o, "commits").a[i].o, "files").k = "array"
           /\ gen.ret.Commits[i].Files = GivenFiles(i)

\* C13, as stated: a result with IsSplit true has at least one commit, every
\* commit with a non-empty file list, the one the model gave; a result with
\* IsSplit false has exactly one commit, whose files are the selected files
\* whatever the payload carried.
C13_AsStated ==
    GenDone /\ gen.ret.ok =>
        IF gen.ret.IsSplit
        THEN /\ Len(gen.ret.Commits) >= 1
             /\ \A i \in 1..Len(gen.ret.Commits) : gen.ret.Commits[i].Files # <<>>
             /\ FilesAsGiven
        ELSE /\ Len(gen.ret.Commits) = 1
             /\ gen.ret.Commits[1].Files = gen.files

\* C13 witness: a split_commits payload with an empty "commits" array was
\* returned as a split result without any commit.
C13_Witness ==
    /\ GenDone
    /\ FirstToolIs("split_commits")
    /\ FirstArgs.k = "object"
    /\ Field(FirstArgs.o, "commits") = JArr(<<>>)
    /\ gen.ret.ok
    /\ gen.ret.IsSplit
    /\ gen.ret.Commits = <<>>

\* C13, the half that holds: a result that is not split has one commit with
\* the selected files, also when the payload named other files.
C13_SingleHasSelectedFiles ==
    GenDone /\ gen.ret.ok /\ ~gen.ret.IsSplit =>
        /\ Len(gen.ret.Commits) = 1
        /\ gen.ret.Commits[1].Files = gen.files

\* The first choice carries no tool call naming one of the two tools.
NoCommitTool ==
    /\ ~gen.resp.err
    /\ Len(gen.resp.Choices) > 0
    /\ \A i \in 1..Len(gen.resp.Choices[1].ToolCalls) :
           gen.resp.Choices[1].ToolCalls[i].Name \notin {"submit_commit", "split_commits"}

\* C14: when the first choice carries no tool call naming submit_commit or
\* split_commits, a non-empty content is returned as one commit with the
\* content as subject, empty type, scope and body, the selected files, and
\* IsSplit false; an empty content is an error without a result.
C14_FallbackOnContent ==
    GenDone /\ NoCommitTool =>
        LET content == gen.resp.Choices[1].Content
        IN  IF content # EmptyText
            THEN /\ gen.ret.ok
                 /\ ~gen.ret.IsSplit
                 /\ gen.ret.Commits =
                        <<[Type |-> EmptyText, Scope |-> EmptyText, Subject |-> content,
                           Body |-> EmptyText, Files |-> gen.files]>>
            ELSE /\ ~gen.ret.ok
                 /\ gen.ret.Commits = <<>>

\* C14 witness: the answer held a call of another tool and a text, and the
\* text came back as the subject of the only commit.
C14_Witness ==
    /\ GenDone
    /\ NoCommitTool
    /\ Len(gen.resp.Choices[1].ToolCalls) = 1
    /\ gen.ret.ok
    /\ gen.ret.Commits[1].Subject = Prose
    /\ gen.ret.Commits[1].Files = gen.files

\* C14 second witness: no tool call and no text, and the call failed.
C14_NothingReturned ==
    /\ GenDone
    /\ NoCommitTool
    /\ gen.resp.Choices[1] = Choice(<<>>, EmptyText)
    /\ ~gen.ret.ok
    /\ gen.ret.err = "AI did not return a commit message"

\* JSON that does not fit the Go type it is decoded into: no JSON at all, or
\* a value of another JSON type where a string, a list of strings, a commit
\* or a list of commits is expected (null fits every type).
BadString(v) == v.k \notin {"string", "null"}
BadStrings(v) ==
    \/ v.k \notin {"array", "null"}
    \/ v.k = "array" /\ \E i \in 1..Len(v.a) : BadString(v.a[i])
BadCommit(v) ==
    \/ v.k \notin {"object", "null"}
    \/ /\ v.k = "object"
       /\ \/ \E key \in {"type", "scope", "subject", "body"} : BadString(Field(v.o, key))
          \/ BadStrings(Field(v.o, "files"))
BadSplit(v) ==
    \/ v.k \notin {"object", "null"}
    \/ /\ v.k = "object"
       /\ LET cs == Field(v.o, "commits")
          IN  \/ cs.k \notin {"array", "null"}
              \/ cs.k = "array" /\ \E i \in 1..Len(cs.a) : BadCommit(cs.a[i])

\* The first tool call names one of the two tools and its arguments do not
\* parse into the tool's shape.
FailsToParse ==
    \/ FirstToolIs("submit_commit") /\ BadCommit(FirstArgs)
    \/ FirstToolIs("split_commits") /\ BadSplit(FirstArgs)

\* C15: when the tool call names submit_commit or split_commits and its
\* arguments fail to parse into the expected shape, GenerateCommitMessage
\* returns an error and no result, also when the answer carries a text.
C15_ParseFailureIsError ==
    GenDone /\ FailsToParse =>
        /\ ~gen.ret.ok
        /\ gen.ret.Commits = <<>>
        /\ gen.ret.err = IF FirstToolIs("submit_commit")
                         THEN "failed to parse commit message"
                         ELSE "failed to parse split commits"

\* C15 witness: a split_commits call whose "commits" is a string, in an
\* answer that also carries a text, came back as an error.
C15_Witness ==
    /\ GenDone
    /\ FirstToolIs("split_commits")
    /\ FirstArgs.k = "object"
    /\ Field(FirstArgs.o, "commits").k = "string"
    /\ gen.resp.Choices[1].Content = Prose
    /\ ~gen.ret.ok

\* C15 second witness: submit_commit with arguments that are no JSON, and a
\* text.
C15_InvalidJSON ==
    /\ GenDone
    /\ FirstToolIs("submit_commit")
    /\ FirstArgs = JInvalid
    /\ gen.resp.Choices[1].Content = Prose
    /\ ~gen.ret.ok

\* ------------------------------------------------------------------------
\* Claims about BuildPrompt.
\* ------------------------------------------------------------------------

TypesIntro == "Use conventional commit format with one of these types: "

RECURSIVE CommaJoined(_)
\* The one-line names of a list, joined with ", " in the order of the list.
CommaJoined(ts) ==
    IF Len(ts) = 0 THEN ""
    ELSE IF Len(ts) = 1 THEN ts[1][1]
    ELSE ts[1][1] \o ", " \o CommaJoined(Tail(ts))

\* The lines of the prompt that begin with a given text.
LinesWith(intro) == {i \in 1..Len(prompt) : HasPrefix(prompt[i], intro)}

\* C16: a prompt built with conventional = FALSE has no line with the
\* sentence of the allowed types, whatever the list of types holds; built
\* with conventional = TRUE it has that sentence once, followed by the types
\* joined with ", " in the order given.
C16_TypesSentenceIffConventional ==
    pc = "prompt" =>
        IF promptArgs.conventional
        THEN /\ Cardinality(LinesWith(TypesIntro)) = 1
             /\ \A i \in LinesWith(TypesIntro) :
                    /\ prompt[i] = TypesIntro \o CommaJoined(promptArgs.types)
                    /\ prompt[i - 1] = ""
        ELSE LinesWith(TypesIntro) = {}

\* C16 witness: a prompt was built with two types and conventional = FALSE,
\* and names neither.
C16_Witness ==
    /\ pc = "prompt"
    /\ ~promptArgs.conventional
    /\ promptArgs.types = <<Str("fix"), Str("feat")>>
    /\ LinesWith(TypesIntro) = {}
    /\ LinesWith("Generate a commit message for these changes:") = {1}

\* C16 second witness: conventional = TRUE and the types in the given order.
C16_InOrder ==
    /\ pc = "prompt"
    /\ promptArgs.conventional
    /\ promptArgs.types = <<Str("fix"), Str("feat")>>
    /\ \E i \in 1..Len(prompt) : prompt[i] = TypesIntro \o "fix, feat"

\* The lines a regeneration request opens with, up to the list of files.
RegenerationHead(previousMsg, feedback) ==
    <<"The user wants you to regenerate the commit message.", "",
      "Previous message:", Fence>>
    \o previousMsg \o <<Fence, "">>
    \o (IF feedback # EmptyText THEN <<"User feedback: " \o feedback[1], "">> ELSE <<>>)
    \o <<"Generate an improved commit message based on the feedback.", "",
         "Files changed:">>

\* The lines any other request opens with.
GenerationHead == <<"Generate a commit message for these changes:", "", "Files changed:">>

\* The parts that belong to a regeneration request only.
RegenerationParts ==
    {"The user wants you to regenerate", "Previous message:", "User feedback:",
     "Generate an improved commit message"}

\* C17: a prompt built with a previous message opens with the regeneration
\* framing and the previous message between fences, and has the line
\* "User feedback: " with the feedback text exactly when the feedback is not
\* empty; a prompt built without a previous message opens with the
\* generation framing and has none of these parts, feedback or not.
C17_RegenerationFraming ==
    pc = "prompt" =>
        IF promptArgs.previousMsg # EmptyText
        THEN LET head == RegenerationHead(promptArgs.previousMsg, promptArgs.feedback)
             IN  /\ Len(prompt) >= Len(head)
                 /\ SubSeq(prompt, 1, Len(head)) = head
                 /\ (LinesWith("User feedback:") # {}) <=> (promptArgs.feedback # EmptyText)
                 /\ LinesWith("Generate a commit message for these changes:") = {}
        ELSE /\ Len(prompt) >= Len(GenerationHead)
             /\ SubSeq(prompt, 1, Len(GenerationHead)) = GenerationHead
             /\ \A part \in RegenerationParts : LinesWith(part) = {}

\* C17 witness: a regeneration request with a previous message of three
\* lines and a feedback, which is line 10 of the prompt.
C17_Witness ==
    /\ pc = "prompt"
    /\ promptArgs.previousMsg = <<"fix(auth): y", "", "body">>
    /\ promptArgs.feedback = Str("make it shorter")
    /\ prompt[5] = "fix(auth): y"
    /\ prompt[7] = "body"
    /\ prompt[10] = "User feedback: make it shorter"

\* C17 second witness: a feedback without a previous message leaves no trace.
C17_FeedbackIgnored ==
    /\ pc = "prompt"
    /\ promptArgs.previousMsg = EmptyText
    /\ promptArgs.feedback = Str("make it shorter")
    /\ LinesWith("User feedback:") = {}

\* C17 third witness: a regeneration request without feedback.
C17_NoFeedback ==
    /\ pc = "prompt"
    /\ promptArgs.previousMsg # EmptyText
    /\ promptArgs.feedback = EmptyText
    /\ prompt[10] = "Generate an improved commit message based on the feedback."

\* ------------------------------------------------------------------------
\* The terminal session (tui: part_003, confirm.go) over the repository
\* (git: part_005).
\* ------------------------------------------------------------------------

\* type state (part_003:18-30)
stateInit == "stateInit"
stateFileSelect == "stateFileSelect"
stateGenerating == "stateGenerating"
stateConfirm == "stateConfirm"
stateEdit == "stateEdit"
stateCommitting == "stateCommitting"
stateDone == "stateDone"
stateSettings == "stateSettings"
stateError == "stateError"

\* Number of characters typed in one session, into the feedback input and
\* into the edit area together.
MaxTyped == 1
\* Number of generation commands issued in one session.
MaxGenerations == 2
\* Number of commands that have not delivered their message.
MaxPending == 2

\* ---- the repository ----

\* The paths of the work tree, in the order git status lists them.
Paths == <<Str("a.go"), Str("b.go")>>
PathSet == {Paths[i] : i \in 1..Len(Paths)}

RECURSIVE Filter(_, _)
\* The elements of a list that are in a set, in the order of the list.
Filter(seq, set) ==
    IF Len(seq) = 0 THEN <<>>
    ELSE IF Head(seq) \in set THEN <<Head(seq)>> \o Filter(Tail(seq), set)
    ELSE Filter(Tail(seq), set)

Elems(seq) == {seq[i] : i \in 1..Len(seq)}

\* Repository.Status (part_005:54-114): the changed paths, Staged when the
\* index holds a change of the path.
Status(r) ==
    LET ps == Filter(Paths, r.changed)
    IN  [i \in 1..Len(ps) |-> [Path |-> ps[i], Staged |-> ps[i] \in r.staged]]

\* Repository.Add (part_005:215-223): git add -- files.  A path that is not
\* in the work tree makes git add fail without staging anything.
AddSucceeds(r, fs) == Elems(fs) \subseteq PathSet
Add(r, fs) == [r EXCEPT !.staged = @ \cup (Elems(fs) \cap r.changed)]

\* Repository.Commit (part_005:225-231): git commit -m message commits what
\* the index holds; it fails with nothing staged or with an empty message.
CommitSucceeds(r, message) == r.staged # {} /\ message # EmptyText
Commit(r, message) ==
    [r EXCEPT !.log = Append(@, [message |-> message, files |-> r.staged]),
              !.changed = @ \ r.staged,
              !.staged = {}]

\* ---- the confirm step (confirm.go) ----

\* The keys of the model: the ones Update and ConfirmModel.Update name, and
\* printable keys they do not name.
Keys == {"ctrl+c", "q", "s", "up", "down", "k", "j", "enter", "e", "x", "esc", "ctrl+s"}

\* A key that writes its character into a focused text input.
Printable(key) == Len(key) = 1

KeyMsg(key) == [type |-> "KeyMsg", key |-> key]

\* NewConfirmModel (confirm.go:22-34).
NewConfirmModel ==
    [cursor |-> 0, input |-> EmptyText, focused |-> FALSE, submitted |-> FALSE,
     action |-> "", feedback |-> EmptyText]

\* textinput.Model.Update: a focused input appends the character of a
\* printable key.
InputUpdate(c, msg) ==
    IF msg.type = "KeyMsg" /\ c.focused /\ Printable(msg.key)
    THEN [c EXCEPT !.input = Cat(@, Str(msg.key))]
    ELSE c

\* ConfirmModel.Update (confirm.go:40-105).
ConfirmUpdate(c, msg) ==
    LET tail == IF c.cursor = 2 THEN InputUpdate(c, msg) ELSE c
    IN  IF msg.type # "KeyMsg" THEN tail
        ELSE IF msg.key \in {"up", "k"}
        THEN IF c.cursor > 0
             THEN [c EXCEPT !.cursor = @ - 1,
                            !.focused = IF c.cursor - 1 # 2 THEN FALSE ELSE @]
             ELSE c
        ELSE IF msg.key \in {"down", "j"}
        THEN IF c.cursor < 2
             THEN [c EXCEPT !.cursor = @ + 1,
                            !.focused = IF c.cursor + 1 = 2 THEN TRUE ELSE @]
             ELSE c
        ELSE IF msg.key = "enter"
        THEN CASE c.cursor = 0 -> [c EXCEPT !.submitted = TRUE, !.action = "commit"]
               [] c.cursor = 1 -> [c EXCEPT !.submitted = TRUE, !.action = "cancel"]
               [] c.cursor = 2 -> [c EXCEPT !.submitted = TRUE, !.action = "regenerate",
                                            !.feedback = c.input]
               [] OTHER -> [c EXCEPT !.submitted = TRUE]
        ELSE IF msg.key \in {"e", "E"}
        THEN IF c.cursor # 2 \/ ~c.focused
             THEN [c EXCEPT !.submitted = TRUE, !.action = "edit"]
             ELSE tail
        ELSE IF c.cursor = 2
             THEN InputUpdate([c EXCEPT !.focused = TRUE], msg)
             ELSE tail

\* ---- the Model (part_003) ----

NoCmd == [kind |-> "none", previousMsg |-> EmptyText, feedback |-> EmptyText]
Quit == [kind |-> "quit", previousMsg |-> EmptyText, feedback |-> EmptyText]
InitCompleteCmd == [kind |-> "initComplete", previousMsg |-> EmptyText, feedback |-> EmptyText]

\* What a handler leaves: the Model, the command it returns, and whether
\* it panicked.
Returns(m, cmd) == [m |-> m, cmd |-> cmd, panic |-> FALSE]
Panics(m) == [m |-> m, cmd |-> NoCmd, panic |-> TRUE]

NewForm(kind) == [kind |-> kind, State |-> "StateNormal"]

\* initFileSelectForm (part_003:113-134): the staged files are preselected.
initFileSelectForm(m) ==
    [m EXCEPT !.selected = LET st == {m.files[i].Path : i \in {j \in 1..Len(m.files) : m.files[j].Staged}}
                           IN  Filter([i \in 1..Len(m.files) |-> m.files[i].Path], st),
              !.form = NewForm("fileSelect")]

\* tui.New (part_003:71-111), called by run (part_000:50-59): the AI client
\* is nil on a first run.
New(r, isFirstRun, apiKey) ==
    LET m0 == [state |-> stateInit, previousState |-> stateInit,
               isFirstRun |-> isFirstRun, aiClient |-> ~isFirstRun, apiKey |-> apiKey,
               files |-> <<>>, selected |-> <<>>, feedback |-> EmptyText,
               commits |-> <<>>, currentIndex |-> 0, isSplit |-> FALSE,
               completed |-> <<>>, form |-> NewForm("firstRun"),
               confirmForm |-> NewConfirmModel, editArea |-> EmptyText, err |-> ""]
    IN  IF isFirstRun THEN m0
        ELSE initFileSelectForm([m0 EXCEPT !.files = Status(r), !.state = stateFileSelect])

\* generateCommitMessage (part_003:593-620): the command, with the previous
\* message and the feedback it captures.
generateCommitMessage(m) ==
    [kind |-> "generate",
     previousMsg |-> IF Len(m.commits) > 0 /\ m.currentIndex < Len(m.commits)
                     THEN String(m.commits[m.currentIndex + 1]) ELSE EmptyText,
     feedback |-> m.feedback]

\* doCommit (part_003:622-640): the command; its closure reads the Model
\* when it runs.
doCommit(m) == [kind |-> "commit", previousMsg |-> EmptyText, feedback |-> EmptyText]

\* huh.Form.Update: a form that is not completed may be completed by the
\* message; a completed form stays completed.
FormUpdate(form, msg) ==
    IF form.State = "StateNormal" /\ msg.type = "FormMsg" /\ msg.completes
    THEN [form EXCEPT !.State = "StateCompleted"]
    ELSE form

\* The form writes the fields bound to it when the message completes it:
\* the selection (part_003:131), the API key (part_003:162, 201).
FormValues(m, msg) ==
    IF m.form.State = "StateNormal" /\ msg.type = "FormMsg" /\ msg.completes
    THEN IF m.form.kind = "fileSelect"
         THEN [m EXCEPT !.selected = msg.selection]
         ELSE [m EXCEPT !.apiKey = msg.apiKey]
    ELSE m

\* A variant of the save that keeps the type, the scope and the body of the
\* commit and writes the text into the subject.
SaveEditKeepsType(m) ==
    [m EXCEPT !.commits[m.currentIndex + 1].Subject = m.editArea,
              !.state = stateConfirm,
              !.confirmForm = NewConfirmModel]

\* case "ctrl+s" of the edit step (part_003:433-443): the text of the edit
\* area becomes the subject of a commit that keeps only its files.
SaveEdit(m) ==
    [m EXCEPT !.commits[m.currentIndex + 1] =
                  CommitMessage(EmptyText, EmptyText, m.editArea, EmptyText,
                                m.commits[m.currentIndex + 1].Files),
              !.state = stateConfirm,
              !.confirmForm = NewConfirmModel]

\* The second switch of Update (part_003:312-456), on m.state.
\* A failure of cfg.Save (part_003:321, 351) is an input of the message that
\* completes the form; a key handled by a form already completed saves again
\* and is taken to succeed.
UpdateState(m, msg) ==
    CASE m.state = stateInit ->
            LET m1 == [FormValues(m, msg) EXCEPT !.form = FormUpdate(m.form, msg)]
            IN  IF m1.form.State = "StateCompleted"
                THEN IF msg.type = "FormMsg" /\ ~msg.saveOK
                     THEN Returns([m1 EXCEPT !.state = stateError,
                                             !.err = "failed to save config"], NoCmd)
                     ELSE IF ~m1.apiKey
                     THEN Returns([m1 EXCEPT !.state = stateError,
                                             !.err = "API key not configured"], NoCmd)
                     ELSE Returns([m1 EXCEPT !.aiClient = TRUE], InitCompleteCmd)
                ELSE Returns(m1, NoCmd)
      [] m.state = stateSettings ->
            LET m1 == [FormValues(m, msg) EXCEPT !.form = FormUpdate(m.form, msg)]
            IN  IF m1.form.State = "StateCompleted"
                THEN IF msg.type = "FormMsg" /\ ~msg.saveOK
                     THEN Returns([m1 EXCEPT !.state = stateError,
                                             !.err = "failed to save config"], NoCmd)
                     ELSE IF ~m1.apiKey
                     THEN Returns([m1 EXCEPT !.state = stateError,
                                             !.err = "API key not configured"], NoCmd)
                     ELSE Returns(initFileSelectForm(
                                      [m1 EXCEPT !.aiClient = TRUE,
                                                 !.state = m1.previousState]), NoCmd)
                ELSE Returns(m1, NoCmd)
      [] m.state = stateFileSelect ->
            LET m1 == [FormValues(m, msg) EXCEPT !.form = FormUpdate(m.form, msg)]
            IN  IF m1.form.State = "StateCompleted"
                THEN IF Len(m1.selected) = 0
                     THEN Returns([m1 EXCEPT !.state = stateError,
                                             !.err = "no files selected"], NoCmd)
                     ELSE LET m2 == [m1 EXCEPT !.state = stateGenerating]
                          IN  Returns(m2, generateCommitMessage(m2))
                ELSE Returns(m1, NoCmd)
      [] m.state = stateConfirm ->
            LET cf == ConfirmUpdate(m.confirmForm, msg)
                m1 == [m EXCEPT !.confirmForm = cf]
            IN  IF cf.submitted
                THEN LET m2 == [m1 EXCEPT !.feedback = cf.feedback]
                     IN  CASE cf.action = "commit" ->
                                Returns([m2 EXCEPT !.state = stateCommitting], doCommit(m2))
                           [] cf.action = "cancel" -> Returns(m2, Quit)
                           [] cf.action = "regenerate" ->
                                LET m3 == [m2 EXCEPT !.state = stateGenerating]
                                IN  Returns(m3, generateCommitMessage(m3))
                           [] cf.action = "edit" ->
                                IF m2.currentIndex < Len(m2.commits)
                                THEN Returns([m2 EXCEPT
                                         !.state = stateEdit,
                                         !.editArea = String(m2.commits[m2.currentIndex + 1])],
                                       NoCmd)
                                ELSE Panics([m2 EXCEPT !.state = stateEdit])
                           [] OTHER -> Returns(m2, NoCmd)
                ELSE Returns(m1, NoCmd)
      [] m.state = stateEdit ->
            IF msg.type = "KeyMsg" /\ msg.key = "esc"
            THEN Returns([m EXCEPT !.state = stateConfirm,
                                   !.confirmForm = NewConfirmModel], NoCmd)
            ELSE IF msg.type = "KeyMsg" /\ msg.key = "ctrl+s"
            THEN IF m.currentIndex < Len(m.commits)
                 THEN Returns(SaveEdit(m), NoCmd)
                 ELSE Panics(m)
            ELSE IF msg.type = "KeyMsg" /\ msg.key = "enter"
            THEN Returns([m EXCEPT !.editArea = Cat(@, NL)], NoCmd)
            ELSE IF msg.type = "KeyMsg" /\ Printable(msg.key)
            THEN Returns([m EXCEPT !.editArea = Cat(@, Str(msg.key))], NoCmd)
            ELSE Returns(m, NoCmd)
      [] OTHER -> Returns(m, NoCmd)

\* case initCompleteMsg (part_003:255-271), with what Repository.Status
\* answers.
OnInitCompleteMsg(m, msg) ==
    IF msg.err # ""
    THEN Returns([m EXCEPT !.state = stateError, !.err = msg.err], NoCmd)
    ELSE IF Len(msg.files) = 0
    THEN Returns([m EXCEPT !.state = stateError, !.err = "no changes to commit"], NoCmd)
    ELSE Returns(initFileSelectForm([m EXCEPT !.files = msg.files,
                                              !.state = stateFileSelect]), NoCmd)

\* A variant of the generateMsg case that answers a failure with another
\* request.
OnGenerateMsgRetries(m, msg) ==
    IF ~msg.result.ok
    THEN Returns(m, generateCommitMessage(m))
    ELSE Returns([m EXCEPT !.commits = msg.result.Commits,
                           !.isSplit = msg.result.IsSplit,
                           !.currentIndex = 0,
                           !.completed = [i \in 1..Len(msg.result.Commits) |-> FALSE],
                           !.state = stateConfirm,
                           !.confirmForm = NewConfirmModel], NoCmd)

\* case generateMsg (part_003:273-285).
OnGenerateMsg(m, msg) ==
    IF ~msg.result.ok
    THEN Returns([m EXCEPT !.state = stateError, !.err = msg.result.err], NoCmd)
    ELSE Returns([m EXCEPT !.commits = msg.result.Commits,
                           !.isSplit = msg.result.IsSplit,
                           !.currentIndex = 0,
                           !.completed = [i \in 1..Len(msg.result.Commits) |-> FALSE],
                           !.state = stateConfirm,
                           !.confirmForm = NewConfirmModel], NoCmd)

\* case commitMsg (part_003:287-304).
OnCommitMsg(m, msg) ==
    IF msg.err # ""
    THEN Returns([m EXCEPT !.state = stateError, !.err = msg.err], NoCmd)
    ELSE IF m.currentIndex >= Len(m.completed)
    THEN Panics(m)
    ELSE LET m1 == [m EXCEPT !.completed[m.currentIndex + 1] = TRUE,
                             !.currentIndex = @ + 1]
         IN  IF m1.currentIndex < Len(m1.commits)
             THEN Returns([m1 EXCEPT !.state = stateConfirm,
                                     !.confirmForm = NewConfirmModel], NoCmd)
             ELSE Returns([m1 EXCEPT !.state = stateDone], Quit)

\* Update (part_003:235-457).  The messages: KeyMsg, initCompleteMsg,
\* generateMsg, commitMsg, and FormMsg for any other message, which the form
\* of the step may take to completion.  (A spinner.TickMsg changes nothing
\* but the spinner and is left out.)
Update(m, msg) ==
    CASE msg.type = "KeyMsg" ->
            IF msg.key = "ctrl+c" THEN Returns(m, Quit)
            ELSE IF msg.key = "q" /\ m.state # stateInit /\ m.state # stateSettings
            THEN Returns(m, Quit)
            ELSE IF msg.key \in {"s", "S"} /\ m.state = stateFileSelect
            THEN Returns([m EXCEPT !.previousState = m.state,
                                   !.state = stateSettings,
                                   !.form = NewForm("settings")], NoCmd)
            ELSE UpdateState(m, msg)
      [] msg.type = "initCompleteMsg" -> OnInitCompleteMsg(m, msg)
      [] msg.type = "generateMsg" -> OnGenerateMsg(m, msg)
      [] msg.type = "commitMsg" -> OnCommitMsg(m, msg)
      [] OTHER -> UpdateState(m, msg)

\* View (part_003:464-591) indexes m.commits in the confirm step and
\* m.completed in the done step.
ViewPanics(m) ==
    \/ m.state = stateConfirm /\ m.currentIndex >= Len(m.commits)
    \/ m.state = stateDone /\ Len(m.completed) < Len(m.commits)

\* ---- the session as a process ----

\* The work trees a session starts in: both paths changed, none or one of
\* them staged.
Worktrees ==
    {[changed |-> PathSet, staged |-> st, log |-> <<>>] : st \in {{}, {Str("a.go")}}}

\* The answers of the provider in a session.
SessionResponses ==
    << TransportError,
       Response(<<>>),
       Response(<<Choice(<<ToolCall("submit_commit", JInvalid)>>, EmptyText)>>),
       Response(<<Choice(<<ToolCall("submit_commit", Payload(Feat))>>, EmptyText)>>),
       Response(<<Choice(<<ToolCall("submit_commit", Payload(ZeroCommit))>>, EmptyText)>>),
       Response(<<Choice(<<ToolCall("split_commits",
                    JObj([commits |-> JArr(<<PayloadWithFiles(Feat, <<Str("a.go")>>),
                                             PayloadWithFiles(Fix, <<Str("b.go")>>)>>)]))>>,
                  EmptyText)>>),
       Response(<<Choice(<<ToolCall("split_commits",
                    JObj([commits |-> JArr(<<PayloadWithFiles(Feat, <<Str("a.go")>>),
                                             Payload(Fix)>>)]))>>, EmptyText)>>),
       Response(<<Choice(<<ToolCall("split_commits",
                    JObj([commits |-> JArr(<<>>)]))>>, EmptyText)>>),
       Response(<<Choice(<<ToolCall("split_commits",
                    JObj([commits |-> JArr(<<PayloadWithFiles(Feat, <<Str("ghost.go")>>)>>)]))>>,
                  EmptyText)>>),
       Response(<<Choice(<<>>, Prose)>>) >>

\* A command Update returned, until its message is delivered.  A generate
\* command is "queued", then "calling" once its closure has sent the
\* request; a commit command is "queued", then "done", with the paths its closure
\* passed to git add in files; the command of
\* initCompleteMsg is "done" at once.
Pending(cmd) ==
    [kind |-> cmd.kind, previousMsg |-> cmd.previousMsg, feedback |-> cmd.feedback,
     phase |-> IF cmd.kind = "initComplete" THEN "done" ELSE "queued",
     files |-> <<>>, err |-> ""]

Remove(seq, i) == SubSeq(seq, 1, i - 1) \o SubSeq(seq, i + 1, Len(seq))

\* Generation commands issued so far.
Issued == Len(provider) + Cardinality({i \in 1..Len(pending) :
                             pending[i].kind = "generate" /\ pending[i].phase = "queued"})

\* Generation calls in flight: sent, the answer not delivered to Update.
InFlight == {i \in 1..Len(pending) : pending[i].kind = "generate" /\ pending[i].phase = "calling"}

\* Update wrote a character into the feedback input or into the edit area.
Typing(m) ==
    \/ m.confirmForm.input # model.confirmForm.input /\ m.confirmForm.input # EmptyText
    \/ m.state = stateEdit /\ model.state = stateEdit /\ m.editArea # model.editArea

\* The runtime takes what Update returned: the Model, the command, then
\* renders the Model with View.
TakesWithin(res, rest, maxTyped) ==
    /\ Typing(res.m) => typed < maxTyped
    /\ res.cmd.kind = "generate" => Issued < MaxGenerations
    /\ model' = res.m
    /\ typed' = IF Typing(res.m) THEN typed + 1 ELSE typed
    /\ program' = IF res.panic \/ ViewPanics(res.m) THEN "panic"
                  ELSE IF res.cmd.kind = "quit" THEN "quit"
                  ELSE program
    /\ pending' = IF res.cmd.kind \in {"initComplete", "generate", "commit"}
                  THEN Append(rest, Pending(res.cmd))
                  ELSE rest
    /\ Len(pending') <= MaxPending

Takes(res, rest) == TakesWithin(res, rest, MaxTyped)

\* run (part_000:33-71) with a configuration file in place: tui.New with
\* isFirstRun false, then tea.NewProgram(model).Run().
SessionInit ==
    /\ diff = EmptyText
    /\ pass = 1
    /\ pc = "idle"
    /\ files = <<>>
    /\ idx = 0
    /\ truncatedFile = EmptyText
    /\ result = EmptyText
    /\ stopped = FALSE
    /\ prompt = EmptyText
    /\ promptArgs = NoArgs
    /\ gen = GenIdle
    /\ cfg = NotLoaded
    /\ keyMsg = ""
    /\ repo \in Worktrees
    /\ model = New(repo, FALSE, TRUE)
    /\ pending = <<>>
    /\ provider = <<>>
    /\ typed = 0
    /\ program = "running"

\* The operator presses one of the keys.
PressOf(keys) ==
    /\ program = "running"
    /\ \E key \in keys : Takes(Update(model, KeyMsg(key)), pending)
    /\ UNCHANGED <<tvars, gen, cfg, keyMsg, provider, repo>>

Press == PressOf(Keys)

\* The lists of files the operator may leave selected.
Selections ==
    {Filter([i \in 1..Len(model.files) |-> model.files[i].Path], sel) : sel \in SUBSET PathSet}

\* The operator completes the form of the step: the file selection with one
\* of the selections, the settings with or without an API key, saved or not.
CompleteOf(selections) ==
    /\ program = "running"
    /\ model.state \in {stateInit, stateSettings, stateFileSelect}
    /\ model.form.State = "StateNormal"
    /\ \E selection \in selections, apiKey \in BOOLEAN, saveOK \in BOOLEAN :
           /\ model.form.kind = "fileSelect" => apiKey /\ saveOK
           /\ model.form.kind # "fileSelect" => selection = model.selected
           /\ Takes(Update(model, [type |-> "FormMsg", completes |-> TRUE,
                                   selection |-> selection, apiKey |-> apiKey,
                                   saveOK |-> saveOK]), pending)
    /\ UNCHANGED <<tvars, gen, cfg, keyMsg, provider, repo>>

Complete == CompleteOf(Selections)

\* The closure of generateCommitMessage (part_003:601-619) runs up to the
\* request: it reads m.selected, takes the diff and calls the provider.
RunGenerate ==
    /\ program = "running"
    /\ \E i \in 1..Len(pending) :
           /\ pending[i].kind = "generate"
           /\ pending[i].phase = "queued"
           /\ IF model.aiClient
              THEN /\ provider' = Append(provider,
                          [files |-> model.selected,
                           diff |-> Elems(model.selected) \cap repo.changed,
                           previousMsg |-> pending[i].previousMsg,
                           feedback |-> pending[i].feedback])
                   /\ pending' = [pending EXCEPT ![i].phase = "calling",
                                                 ![i].files = model.selected]
                   /\ program' = program
              ELSE /\ program' = "panic"
                   /\ UNCHANGED <<provider, pending>>
    /\ UNCHANGED <<tvars, gen, cfg, keyMsg, model, repo, typed>>

\* The closure of doCommit (part_003:623-639) runs: git add, git commit.
RunCommit ==
    /\ program = "running"
    /\ \E i \in 1..Len(pending) :
           /\ pending[i].kind = "commit"
           /\ pending[i].phase = "queued"
           /\ IF model.currentIndex < Len(model.commits)
              THEN LET commit == model.commits[model.currentIndex + 1]
                       fs     == IF Len(commit.Files) = 0 THEN model.selected
                                 ELSE commit.Files
                   IN  /\ program' = program
                       /\ IF ~AddSucceeds(repo, fs)
                          THEN /\ pending' = [pending EXCEPT ![i].phase = "done",
                                                            ![i].files = fs,
                                                            ![i].err = "git add failed"]
                               /\ repo' = repo
                          ELSE IF ~CommitSucceeds(Add(repo, fs), String(commit))
                          THEN /\ pending' = [pending EXCEPT ![i].phase = "done",
                                                            ![i].files = fs,
                                                            ![i].err = "git commit failed"]
                               /\ repo' = Add(repo, fs)
                          ELSE /\ pending' = [pending EXCEPT ![i].phase = "done",
                                                            ![i].files = fs]
                               /\ repo' = Commit(Add(repo, fs), String(commit))
              ELSE /\ program' = "panic"
                   /\ UNCHANGED <<pending, repo>>
    /\ UNCHANGED <<tvars, gen, cfg, keyMsg, model, provider, typed>>

\* The message of a command reaches Update: initCompleteMsg, the
\* generateMsg with what GenerateCommitMessage made of the provider's
\* answer, or the commitMsg.
DeliverOf(responses) ==
    /\ program = "running"
    /\ \E i \in 1..Len(pending) :
           LET cmd  == pending[i]
               rest == Remove(pending, i)
           IN  \/ /\ cmd.kind = "initComplete"
                  /\ \E statusErr \in {"", "git status failed"} :
                         Takes(Update(model, [type |-> "initCompleteMsg",
                                              files |-> Status(repo), err |-> statusErr]),
                               rest)
               \/ /\ cmd.kind = "generate"
                  /\ cmd.phase = "calling"
                  /\ \E r \in 1..Len(responses) :
                         Takes(Update(model, [type |-> "generateMsg",
                                              result |-> GenerateCommitMessage(
                                                             cmd.files, responses[r])]),
                               rest)
               \/ /\ cmd.kind = "commit"
                  /\ cmd.phase = "done"
                  /\ Takes(Update(model, [type |-> "commitMsg", err |-> cmd.err]), rest)
    /\ UNCHANGED <<tvars, gen, cfg, keyMsg, provider, repo>>

Deliver == DeliverOf(SessionResponses)

SessionNext == Press \/ Complete \/ RunGenerate \/ RunCommit \/ Deliver

SessionSpec == SessionInit /\ [][SessionNext]_vars

SessionTypeOK ==
    /\ program \in {"running", "quit", "panic"}
    /\ model.state \in {stateInit, stateFileSelect, stateGenerating, stateConfirm,
                        stateEdit, stateCommitting, stateDone, stateSettings, stateError}
    /\ Len(pending) <= MaxPending
    /\ Len(provider) <= MaxGenerations

\* ---- the generation cycle ----

\* The generation commands of the session that have not delivered their
\* message, by phase.
Generations(phase) ==
    {i \in 1..Len(pending) : pending[i].kind = "generate" /\ pending[i].phase = phase}

\* The errors GenerateCommitMessage returns (openai.go:146-170, 187-230).
CycleErrors ==
    {"AI request failed", "no response from AI", "failed to parse commit message",
     "failed to parse split commits", "AI did not return a commit message"}

\* A provider call is the one call of a generation command that was queued:
\* the request is appended and that command is now calling.
OneCallOfAQueuedCommand ==
    /\ Len(provider') = Len(provider) + 1
    /\ SubSeq(provider', 1, Len(provider)) = provider
    /\ \E i \in Generations("queued") :
           pending' = [pending EXCEPT ![i].phase = "calling", ![i].files = model.selected]

\* The answer of a call is delivered: the cycle is over, as Completed with
\* commits to confirm or as Failed with the error kept in the Model, and
\* neither makes a provider call or queues another generation.
CycleEnds ==
    /\ provider' = provider
    /\ \A i \in 1..Len(pending') : pending'[i].kind # "generate"
    /\ \/ model'.state = stateConfirm /\ model'.err = model.err
       \/ /\ model'.state = stateError
          /\ model'.err \in CycleErrors
          /\ model'.commits = model.commits

\* C18: each generation cycle makes exactly one provider call and does not
\* retry: a provider call is only ever the single call of a queued
\* generation command, the delivery of its answer ends the cycle as
\* Completed (commits to confirm) or as Failed (the error state, with the
\* error of GenerateCommitMessage as the value shown), and from the error
\* state on no generation is pending and no provider call is made.
C18_OneCallNoRetry ==
    /\ [](model.state = stateError =>
             \A i \in 1..Len(pending) : pending[i].kind # "generate")
    /\ [][/\ provider' # provider => OneCallOfAQueuedCommand
          /\ Generations("calling") # {} /\ Generations("calling")' = {}
                 => CycleEnds
          /\ Cardinality(Generations("queued")') < Cardinality(Generations("queued"))
                 => provider' # provider
          /\ model.state = stateError
                 => model'.state = stateError /\ provider' = provider]_vars

\* C18 witness: the second cycle of a session, a regeneration, failed in
\* transport: two provider calls were made, one for each cycle, the error
\* is in the Model and nothing is pending.
C18_Witness ==
    /\ model.state = stateError
    /\ model.err = "AI request failed"
    /\ Len(provider) = 2
    /\ provider[2].previousMsg # EmptyText
    /\ pending = <<>>
    /\ program = "running"

\* ---- a first run ----

\* The keys pressed in the first-run sessions followed here.
FirstRunKeys == {"ctrl+c", "q", "enter"}

\* The answers of the provider in them.
FirstRunResponses ==
    << TransportError,
       Response(<<Choice(<<ToolCall("submit_commit", Payload(Feat))>>, EmptyText)>>) >>

\* run (part_000:33-71) without a configuration file: tui.New with
\* isFirstRun true and no AI client.
FirstRunInit ==
    /\ diff = EmptyText
    /\ pass = 1
    /\ pc = "idle"
    /\ files = <<>>
    /\ idx = 0
    /\ truncatedFile = EmptyText
    /\ result = EmptyText
    /\ stopped = FALSE
    /\ prompt = EmptyText
    /\ promptArgs = NoArgs
    /\ gen = GenIdle
    /\ cfg = NotLoaded
    /\ keyMsg = ""
    /\ repo \in Worktrees
    /\ model = New(repo, TRUE, FALSE)
    /\ pending = <<>>
    /\ provider = <<>>
    /\ typed = 0
    /\ program = "running"

FirstRunPress == PressOf(FirstRunKeys)

FirstRunDeliver == DeliverOf(FirstRunResponses)

FirstRunNext == FirstRunPress \/ Complete \/ RunGenerate \/ RunCommit \/ FirstRunDeliver

FirstRunSpec == FirstRunInit /\ [][FirstRunNext]_vars

\* Generation commands whose message Update has not received yet: queued,
\* or calling the provider.
Outstanding == {i \in 1..Len(pending) : pending[i].kind = "generate"}

\* C19, as stated: within one session at most one generation call is in
\* flight at any time, and no generation is requested before the message of
\* the previous one has reached Update: at most one generation command is
\* outstanding, and while one is, the session is generating.
C19_AsStated ==
    /\ Cardinality(InFlight) <= 1
    /\ Cardinality(Outstanding) <= 1
    /\ program = "running" /\ Outstanding # {} => model.state = stateGenerating

\* C19 witness: a first-run session in which two generation calls are in
\* flight at once, two requests sent and neither answer delivered.
C19_Witness ==
    /\ program = "running"
    /\ Cardinality(InFlight) = 2
    /\ Len(provider) = 2
    /\ model.isFirstRun

\* In a session started with a configuration file, C19 holds as stated.
NormalRunOneGeneration == ~model.isFirstRun => C19_AsStated

\* ---- the result and the commits made of it ----

\* The session has ended: done, cancelled or quit (tea.Quit), or in error.
Ended == program = "quit" \/ model.state \in {stateDone, stateError}

\* The commits of the current result that are in the repository: those
\* Update has marked completed, and the one whose git commit has returned
\* without error while its commitMsg is still on the way.
Committed ==
    Cardinality({i \in 1..Len(model.completed) : model.completed[i]})
    + Cardinality({i \in 1..Len(pending) :
                       /\ pending[i].kind = "commit"
                       /\ pending[i].phase = "done"
                       /\ pending[i].err = ""})

\* C20, as stated: a result is applied all-or-nothing: whenever the session
\* has ended, either every commit of the current result is in the
\* repository or none of them is.
C20_AsStated == Ended => Committed = 0 \/ Committed = Len(model.commits)

\* C20 witness: a session that ended in error with the first commit of a
\* result of two in the repository and the second one not.
C20_Witness ==
    /\ model.state = stateError
    /\ model.isSplit
    /\ Len(model.commits) = 2
    /\ model.completed = <<TRUE, FALSE>>
    /\ Len(repo.log) = 1
    /\ pending = <<>>

\* A message that arrives after the program has ended is not handled: the
\* Model and the repository stay as they are.
NothingAfterTheEnd == [][program # "running" => UNCHANGED <<model, repo, provider>>]_vars

\* ---- the selection and the requests ----

\* C21, as stated: no call to the provider is issued with an empty
\* selection: every request sent names at least one file.
C21_AsStated == \A i \in 1..Len(provider) : provider[i].files # <<>>

\* C21 witness: a first-run session in which a request was sent with no
\* file selected.
C21_Witness ==
    /\ model.isFirstRun
    /\ \E i \in 1..Len(provider) : provider[i].files = <<>>

\* In a session started with a configuration file an empty selection is
\* rejected: no request names an empty selection, and a session that
\* stopped on "no files selected" has sent no request and has none pending.
NormalRunRejectsEmptySelection ==
    ~model.isFirstRun =>
        /\ C21_AsStated
        /\ model.state = stateError /\ model.err = "no files selected"
               => provider = <<>> /\ pending = <<>> /\ model.selected = <<>>

\* The rejection is reached: a session stopped on the empty selection.
EmptySelectionRejected ==
    model.state = stateError /\ model.err = "no files selected" /\ ~model.isFirstRun

\* A generation command is returned by Update in this step.
Requested == Cardinality(Generations("queued")') > Cardinality(Generations("queued"))

\* The command returned in this step: the last one of the pending commands.
NewRequest == pending'[Len(pending')]

\* In a session started with a configuration file the first request comes
\* from the file selection and carries no previous message and no feedback;
\* every later one comes from the regenerate action of the confirm step and
\* carries the rendering of the commit displayed (commits[currentIndex]) and
\* the text of the feedback input of that confirm step.
RequestsByOrigin ==
    [][Requested =>
          \/ /\ model.state = stateFileSelect
             /\ Issued = 0
             /\ NewRequest.previousMsg = EmptyText
             /\ NewRequest.feedback = EmptyText
          \/ /\ model.state = stateConfirm
             /\ Issued >= 1
             /\ model'.confirmForm.action = "regenerate"
             /\ NewRequest.previousMsg = String(model.commits[model.currentIndex + 1])
             /\ NewRequest.feedback = model'.confirmForm.input]_vars

\* C22, as stated: a request carries a previous message if and only if it
\* is a regeneration: the first request of the session carries neither a
\* previous message nor a feedback, and every later one, issued by the
\* regenerate action, carries a previous message.
C22_AsStated ==
    \A i \in 1..Len(provider) :
        /\ provider[i].previousMsg # EmptyText <=> i > 1
        /\ i = 1 => provider[i].feedback = EmptyText

\* C22 witness: a regeneration request with a feedback and without a
\* previous message: the commit displayed rendered as the empty string.
C22_Witness ==
    /\ Len(provider) = 2
    /\ provider[2].previousMsg = EmptyText
    /\ provider[2].feedback # EmptyText
    /\ Len(model.commits) = 1
    /\ String(model.commits[1]) = EmptyText

\* ---- the order of the steps ----

\* The steps of the state machine (AGENT.md:40-44, part_003:235-457): from
\* each state, the states Update may go to.
Successors(st) ==
    CASE st = stateInit -> {stateFileSelect, stateError}
      [] st = stateFileSelect -> {stateSettings, stateGenerating, stateError}
      [] st = stateSettings -> {stateFileSelect, stateError}
      [] st = stateGenerating -> {stateConfirm, stateError}
      [] st = stateConfirm -> {stateCommitting, stateGenerating, stateEdit}
      [] st = stateEdit -> {stateConfirm}
      [] st = stateCommitting -> {stateConfirm, stateDone, stateError}
      [] OTHER -> {}

\* A commit is created in this step: one entry more in the log.
Commits == repo'.log # repo.log

\* C23, as stated: the session moves along the steps of the state machine;
\* done is entered only from committing and only with every commit of the
\* current result completed; and each commit is created while committing,
\* for the commit at currentIndex, which the operator has just confirmed
\* with the commit action, after all the commits before it in the list and
\* before all the commits after it.
C23_AsStated ==
    [][/\ model'.state # model.state => model'.state \in Successors(model.state)
       /\ model'.state = stateDone /\ model.state # stateDone =>
              /\ model.state = stateCommitting
              /\ Len(model'.commits) >= 1
              /\ Len(model'.completed) = Len(model'.commits)
              /\ \A i \in 1..Len(model'.completed) : model'.completed[i]
       /\ Commits =>
              /\ model.state = stateCommitting
              /\ model.confirmForm.submitted /\ model.confirmForm.action = "commit"
              /\ model.currentIndex < Len(model.commits)
              /\ repo'.log = Append(repo.log,
                     [message |-> String(model.commits[model.currentIndex + 1]),
                      files |-> repo'.log[Len(repo'.log)].files])
              /\ \A i \in 1..Len(model.completed) :
                     model.completed[i] <=> i <= model.currentIndex]_vars

\* C23 witness: a first-run session back in the file selection while the
\* commit the operator confirmed has been created and its commitMsg is on
\* the way: the next step takes the session from file select to done.
C23_Witness ==
    /\ model.isFirstRun
    /\ program = "running"
    /\ model.state = stateFileSelect
    /\ Len(model.commits) = 1
    /\ Len(repo.log) = 1
    /\ \E i \in 1..Len(pending) :
           pending[i].kind = "commit" /\ pending[i].phase = "done" /\ pending[i].err = ""

\* A session done after the two commits of a split result, in list order.
DoneAfterSplit ==
    /\ model.state = stateDone
    /\ model.completed = <<TRUE, TRUE>>
    /\ Len(repo.log) = 2
    /\ repo.log[1].message = String(model.commits[1])
    /\ repo.log[2].message = String(model.commits[2])

\* ---- the configuration (config.go) ----

\* A key of a TOML file, or an environment variable: not there, or there
\* with a value.
Unset == [set |-> FALSE, v |-> ""]
Set(v) == [set |-> TRUE, v |-> v]

\* Default (config.go:50-69): the fields followed here.
Default ==
    [General |-> [Mode |-> "auto"],
     AI |-> [Model |-> "", BaseURL |-> "", APIKey |-> ""],
     UI |-> [Theme |-> "tokyonight"]]

\* ConfigPath (config.go:40-42) and a path given with -config.
ConfigPath == "~/.config/commity/config.toml"
CustomPath == "/tmp/config.toml"

\* The keys a file may set, by table.
Tables ==
    [mode     : {Unset},
     model    : {Unset, Set("config-model")},
     base_url : {Unset, Set("https://config.example.com")},
     api_key  : {Unset, Set(""), Set("config-api-key")},
     theme    : {Unset, Set("dracula")}]

NoTable == [mode |-> Unset, model |-> Unset, base_url |-> Unset, api_key |-> Unset,
            theme |-> Unset]

\* What is at a path: no file, a file that is not TOML, or a TOML file.
Missing == [kind |-> "missing", table |-> NoTable]
Invalid == [kind |-> "invalid", table |-> NoTable]
Toml(table) == [kind |-> "toml", table |-> table]

\* The files the calls find: any file at the path given with -config; at
\* the default path no file, or one that sets the mode and the model.
Disks ==
    {[p \in {ConfigPath, CustomPath} |-> IF p = ConfigPath THEN d ELSE c] :
        d \in {Missing, Toml([NoTable EXCEPT !.mode = Set("manual"),
                                             !.model = Set("home-model")])},
        c \in {Missing, Invalid} \cup {Toml(t) : t \in Tables}}

\* The environments of the calls.
EnvNames == {"OPENAI_API_KEY", "OPENAI_BASE_URL", "OPENAI_MODEL"}
Environments ==
    {[n \in EnvNames |-> CASE n = "OPENAI_API_KEY" -> k
                           [] n = "OPENAI_BASE_URL" -> b
                           [] OTHER -> m] :
        k \in {Unset, Set(""), Set("env-api-key")},
        b \in {Unset, Set(""), Set("https://env.example.com")},
        m \in {Unset, Set(""), Set("env-model")}}

\* os.Getenv: the value of the variable, "" when it is not set.
Getenv(environ, name) == IF environ[name].set THEN environ[name].v ELSE ""

\* toml.DecodeFile into a Config (config.go:81): the keys of the file
\* overwrite their fields, the other fields stay.
DecodeFile(table, c) ==
    [General |-> [Mode |-> IF table.mode.set THEN table.mode.v ELSE c.General.Mode],
     AI |-> [Model |-> IF table.model.set THEN table.model.v ELSE c.AI.Model,
             BaseURL |-> IF table.base_url.set THEN table.base_url.v ELSE c.AI.BaseURL,
             APIKey |-> IF table.api_key.set THEN table.api_key.v ELSE c.AI.APIKey],
     UI |-> [Theme |-> IF table.theme.set THEN table.theme.v ELSE c.UI.Theme]]

\* The overrides of the environment (config.go:86-95).
Override(environ, c) ==
    LET key     == Getenv(environ, "OPENAI_API_KEY")
        baseURL == Getenv(environ, "OPENAI_BASE_URL")
        mdl     == Getenv(environ, "OPENAI_MODEL")
        c1 == IF key # "" THEN [c EXCEPT !.AI.APIKey = key] ELSE c
        c2 == IF baseURL # "" THEN [c1 EXCEPT !.AI.BaseURL = baseURL] ELSE c1
    IN  IF mdl # "" THEN [c2 EXCEPT !.AI.Model = mdl] ELSE c2

\* A variant of Load in which the file is read after the environment.
LoadFileLast(path, disk, environ) ==
    LET p    == IF path = "" THEN ConfigPath ELSE path
        file == disk[p]
    IN  IF file.kind = "invalid" THEN [err |-> TRUE, cfg |-> Default]
        ELSE IF file.kind = "missing"
        THEN [err |-> FALSE, cfg |-> Override(environ, Default)]
        ELSE [err |-> FALSE, cfg |-> DecodeFile(file.table, Override(environ, Default))]

\* Load (config.go:71-98).
Load(path, disk, environ) ==
    LET p    == IF path = "" THEN ConfigPath ELSE path
        file == disk[p]
    IN  IF file.kind = "invalid" THEN [err |-> TRUE, cfg |-> Default]
        ELSE IF file.kind = "missing"
        THEN [err |-> FALSE, cfg |-> Override(environ, Default)]
        ELSE [err |-> FALSE, cfg |-> Override(environ, DecodeFile(file.table, Default))]

\* config.Load(configPath) is called (part_000:38).
LoadCall ==
    /\ cfg.pc = "called"
    /\ cfg' = [cfg EXCEPT !.pc = "loaded",
                          !.ret = Load(cfg.path, cfg.disk, cfg.environ)]
    /\ UNCHANGED <<tvars, gen, svars, keyMsg>>

ConfigInit ==
    /\ diff = EmptyText
    /\ pass = 1
    /\ pc = "idle"
    /\ files = <<>>
    /\ idx = 0
    /\ truncatedFile = EmptyText
    /\ result = EmptyText
    /\ stopped = FALSE
    /\ prompt = EmptyText
    /\ promptArgs = NoArgs
    /\ gen = GenIdle
    /\ keyMsg = ""
    /\ SessionNotStarted
    /\ \E path \in {"", CustomPath}, disk \in Disks, environ \in Environments :
           cfg = [pc |-> "called", path |-> path, disk |-> disk, environ |-> environ,
                  ret |-> [err |-> FALSE, cfg |-> Default]]

ConfigNext == LoadCall

ConfigSpec == ConfigInit /\ [][ConfigNext]_vars

\* The file Load looks at.
FileAt == cfg.disk[IF cfg.path = "" THEN ConfigPath ELSE cfg.path]

\* The value the claim gives a field: the variable of the environment when
\* it is set and not empty, otherwise the value of the file when the file
\* is there and sets the key, otherwise the default.
Resolved(name, key, default) ==
    IF cfg.environ[name].set /\ cfg.environ[name].v # "" THEN cfg.environ[name].v
    ELSE IF FileAt.kind = "toml" /\ FileAt.table[key].set THEN FileAt.table[key].v
    ELSE default

\* C24: Load resolves the API key, the base URL and the model by the same
\* precedence, environment variable (set and not empty), then the key of the
\* file, then the default; a missing file is not an error; and the fields
\* the file does not set keep their defaults.
C24_Precedence ==
    cfg.pc = "loaded" =>
        /\ FileAt.kind = "missing" => ~cfg.ret.err
        /\ cfg.ret.err <=> FileAt.kind = "invalid"
        /\ ~cfg.ret.err =>
              /\ cfg.ret.cfg.AI.APIKey = Resolved("OPENAI_API_KEY", "api_key", Default.AI.APIKey)
              /\ cfg.ret.cfg.AI.BaseURL = Resolved("OPENAI_BASE_URL", "base_url", Default.AI.BaseURL)
              /\ cfg.ret.cfg.AI.Model = Resolved("OPENAI_MODEL", "model", Default.AI.Model)
              /\ ~(FileAt.kind = "toml" /\ FileAt.table.theme.set)
                     => cfg.ret.cfg.UI.Theme = Default.UI.Theme
              /\ ~(FileAt.kind = "toml" /\ FileAt.table.mode.set)
                     => cfg.ret.cfg.General.Mode = Default.General.Mode

\* C24 witness: the call of TestLoadPartialEnvVars (ai_test.go:551-581): the
\* file sets the model and the API key, the environment only the API key;
\* the key comes from the environment, the model from the file, the base
\* URL and the theme are the defaults.
C24_Witness ==
    /\ cfg.pc = "loaded"
    /\ cfg.path = CustomPath
    /\ FileAt = Toml([NoTable EXCEPT !.model = Set("config-model"),
                                     !.api_key = Set("config-api-key")])
    /\ cfg.environ = [n \in EnvNames |-> IF n = "OPENAI_API_KEY" THEN Set("env-api-key")
                                         ELSE Unset]
    /\ ~cfg.ret.err
    /\ cfg.ret.cfg.AI.APIKey = "env-api-key"
    /\ cfg.ret.cfg.AI.Model = "config-model"
    /\ cfg.ret.cfg.AI.BaseURL = ""
    /\ cfg.ret.cfg.UI.Theme = "tokyonight"

\* ---- the keys of the confirm and the edit step, one by one ----

\* Characters typed in one confirm and edit step.
MaxKeyTyped == 2

\* The answers of the provider that open the step: a single commit, a
\* single commit with scope and body, a split result of two.
KeyResponses ==
    << Response(<<Choice(<<ToolCall("submit_commit", Payload(Feat))>>, EmptyText)>>),
       Response(<<Choice(<<ToolCall("submit_commit", Payload(Fix))>>, EmptyText)>>),
       Response(<<Choice(<<ToolCall("split_commits",
                    JObj([commits |-> JArr(<<PayloadWithFiles(Feat, <<Str("a.go")>>),
                                             PayloadWithFiles(Fix, <<Str("b.go")>>)>>)]))>>,
                  EmptyText)>> ) >>

\* The Model at the start of a confirm step: tui.New, the file form
\* completed with a selection, and the generateMsg of the answer handled.
ConfirmStep(r, selection, resp) ==
    LET m0 == New(r, FALSE, TRUE)
        m1 == Update(m0, [type |-> "FormMsg", completes |-> TRUE, selection |-> selection,
                          apiKey |-> TRUE, saveOK |-> TRUE]).m
    IN  Update(m1, [type |-> "generateMsg",
                    result |-> GenerateCommitMessage(selection, resp)]).m

KeyInit ==
    /\ diff = EmptyText
    /\ pass = 1
    /\ pc = "idle"
    /\ files = <<>>
    /\ idx = 0
    /\ truncatedFile = EmptyText
    /\ result = EmptyText
    /\ stopped = FALSE
    /\ prompt = EmptyText
    /\ promptArgs = NoArgs
    /\ gen = GenIdle
    /\ cfg = NotLoaded
    /\ keyMsg = ""
    /\ repo \in Worktrees
    /\ \E selection \in {Paths, <<Str("a.go")>>}, r \in 1..Len(KeyResponses) :
           /\ model = ConfirmStep(repo, selection, KeyResponses[r])
           /\ provider = <<[files |-> selection, diff |-> Elems(selection) \cap repo.changed,
                            previousMsg |-> EmptyText, feedback |-> EmptyText]>>
    /\ pending = <<>>
    /\ typed = 0
    /\ program = "running"

\* Update handles the KeyMsg of one key in the confirm or the edit step.
KeyPress ==
    /\ program = "running"
    /\ model.state \in {stateConfirm, stateEdit}
    /\ \E key \in Keys :
           /\ TakesWithin(Update(model, KeyMsg(key)), pending, MaxKeyTyped)
           /\ keyMsg' = key
    /\ UNCHANGED <<tvars, gen, cfg, provider, repo>>

KeyNext == KeyPress

KeySpec == KeyInit /\ [][KeyNext]_vars

\* The confirm step with the cursor on the regenerate option.
OnRegenerate == model.state = stateConfirm /\ model.confirmForm.cursor = 2

\* The key of the step is appended to the feedback text and nothing else
\* changes.
AppendsToFeedback ==
    /\ model' = [model EXCEPT !.confirmForm.input = Cat(@, Str(keyMsg'))]
    /\ program' = program
    /\ pending' = pending

\* C25, as stated: with the cursor on the regenerate option every printable
\* key is appended to the feedback text and has no other effect.
C25_AsStated == [][OnRegenerate /\ Printable(keyMsg') => AppendsToFeedback]_vars

\* C25 witness: the operator typed x and then q into the feedback: the
\* session has quit, with the feedback text still "x".
C25_Witness ==
    /\ OnRegenerate
    /\ keyMsg = "q"
    /\ program = "quit"
    /\ model.confirmForm.input = Str("x")

\* The printable keys other than k, j and q are appended to the feedback
\* text and have no other effect, and enter then submits the text as typed.
OtherKeysAppend ==
    [][/\ OnRegenerate /\ Printable(keyMsg') /\ keyMsg' \notin {"k", "j", "q"}
           => AppendsToFeedback
       /\ OnRegenerate /\ keyMsg' = "enter"
           => /\ model'.feedback = model.confirmForm.input
              /\ NewRequest.feedback = model.confirmForm.input]_vars

\* k with the cursor on the regenerate option: the cursor moves up to
\* cancel and the feedback text is as before.
KMovesCursor ==
    /\ model.state = stateConfirm
    /\ keyMsg = "k"
    /\ model.confirmForm.cursor = 1
    /\ model.confirmForm.input = Str("x")

\* ---- the index of the commit displayed ----

\* C26, as stated: in the confirm, edit and committing states currentIndex
\* is an index of commits and completed is as long as commits.
C26_AsStated ==
    model.state \in {stateConfirm, stateEdit, stateCommitting} =>
        /\ 0 <= model.currentIndex
        /\ model.currentIndex < Len(model.commits)
        /\ Len(model.completed) = Len(model.commits)

\* C26 witness: the confirm step of a split result without commits: View
\* indexes commits[0] of an empty list and the program panics.
C26_Witness ==
    /\ model.state = stateConfirm
    /\ model.isSplit
    /\ model.commits = <<>>
    /\ model.currentIndex = 0
    /\ program = "panic"

\* With a result of at least one commit the index is in range in the three
\* states and completed is as long as commits.
IndexInRangeOfNonEmptyResult ==
    model.state \in {stateConfirm, stateEdit, stateCommitting} /\ model.commits # <<>>
        => C26_AsStated

\* ---- the paths added and the files committed ----

\* The commit commands whose closure has run: files holds the paths it
\* passed to Repository.Add.
Adds == {i \in 1..Len(pending) : pending[i].kind = "commit" /\ pending[i].phase = "done"}

\* C27, as stated: every path passed to Repository.Add is one of the files
\* the operator selected.
C27_AsStated == \A i \in Adds : Elems(pending[i].files) \subseteq Elems(model.selected)

\* C27 witness: only a.go is selected and the second commit of a split
\* result lists b.go: b.go was passed to git add, and committed.
C27_Witness ==
    /\ model.selected = <<Str("a.go")>>
    /\ model.isSplit
    /\ \E i \in Adds : pending[i].files = <<Str("b.go")>> /\ pending[i].err = ""
    /\ Len(repo.log) = 2
    /\ repo.log[2].files = {Str("b.go")}

\* For a commit that is not part of a split result the paths added are the
\* selected files.
SingleAddsTheSelection ==
    ~model.isFirstRun /\ ~model.isSplit => \A i \in Adds : pending[i].files = model.selected

\* The commit commands whose closure has created its commit: the commit is
\* the last one of the log.
Created == {i \in Adds : pending[i].err = ""}

\* C28, as stated: a commit created by doCommit contains exactly the files
\* attributed to it, the paths passed to git add.
C28_AsStated == \A i \in Created : repo.log[Len(repo.log)].files = Elems(pending[i].files)

\* C28 witness: a.go was staged when the session started, the operator
\* selected only b.go, and the single commit created for b.go contains
\* a.go as well.
C28_Witness ==
    /\ ~model.isSplit
    /\ model.selected = <<Str("b.go")>>
    /\ \E i \in Created : pending[i].files = <<Str("b.go")>>
    /\ Len(repo.log) = 1
    /\ repo.log[1].files = {Str("a.go"), Str("b.go")}

\* ---- the edit step ----

\* The commit displayed, before the step.
Displayed == model.commits[model.currentIndex + 1]

\* What an edit leaves alone: the other commits, the files of the commit
\* displayed, currentIndex, completed and the selection; the session is back
\* in the confirm step and nothing else has happened.
EditFrame ==
    /\ model'.state = stateConfirm
    /\ Len(model'.commits) = Len(model.commits)
    /\ \A i \in 1..Len(model.commits) :
           i # model.currentIndex + 1 => model'.commits[i] = model.commits[i]
    /\ model'.commits[model.currentIndex + 1].Files = Displayed.Files
    /\ model'.currentIndex = model.currentIndex
    /\ model'.completed = model.completed
    /\ model'.selected = model.selected
    /\ program' = program
    /\ pending' = pending
    /\ provider' = provider
    /\ repo' = repo

\* C29: the edit step opens on the rendering of the commit displayed; save
\* (ctrl+s) makes the rendering of that commit the text of the edit area, so
\* an unchanged text gives an unchanged rendering, and keeps its files;
\* cancel (esc) leaves the commit as it is; both leave the other commits,
\* currentIndex, completed and the selection alone and return to confirm.
C29_EditChangesOnlyTheMessage ==
    [][/\ model.state = stateConfirm /\ model'.state = stateEdit
           => model'.editArea = String(Displayed) /\ model'.commits = model.commits
       /\ model.state = stateEdit /\ keyMsg' = "ctrl+s"
           => /\ String(model'.commits[model.currentIndex + 1]) = model.editArea
              /\ model.editArea = String(Displayed)
                     => String(model'.commits[model.currentIndex + 1]) = String(Displayed)
              /\ EditFrame
       /\ model.state = stateEdit /\ keyMsg' = "esc"
           => model'.commits = model.commits /\ EditFrame]_vars

\* C29 witness: the second commit of a split result is in the list, the
\* first one, displayed, was "feat: add login"; the operator typed x and
\* saved: the first commit renders as "feat: add loginx" and has its files.
C29_Witness ==
    /\ model.state = stateConfirm
    /\ keyMsg = "ctrl+s"
    /\ model.isSplit
    /\ model.currentIndex = 0
    /\ String(model.commits[1]) = Str("feat: add loginx")
    /\ model.commits[1].Files = <<Str("a.go")>>
    /\ model.commits[2] = [Fix EXCEPT !.Files = <<Str("b.go")>>]

\* ---- regeneration in the middle of a split result ----

\* The paths whose changes are in a commit already.
CommittedPaths == PathSet \ repo.changed

\* The commits of the list recorded as completed.
Completed(m) == {i \in 1..Len(m.completed) : m.completed[i]}

\* The closure of generateCommitMessage sends a request in this step.
SendsRequest == Len(provider') = Len(provider) + 1

\* The result of a request is taken into the Model in this step.
TakesResult == model.state = stateGenerating /\ model'.state = stateConfirm

\* C30 as stated: a request sent once commits of a split result are made
\* names no path whose changes are committed, and taking its result leaves
\* the commits recorded as completed recorded so.
C30_AsStated ==
    [][/\ SendsRequest /\ repo.log # <<>>
           => Elems(provider'[Len(provider')].files) \cap CommittedPaths = {}
       /\ TakesResult => Completed(model) \subseteq Completed(model')]_vars

\* C30 witness: the first commit of a split result, of a.go, is made; the
\* operator regenerated at the second one; the request named a.go and b.go
\* and its result is on screen with nothing recorded as completed.
C30_Witness ==
    /\ Len(repo.log) = 1
    /\ CommittedPaths = {Str("a.go")}
    /\ Len(provider) = 2
    /\ provider[2].files = Paths
    /\ provider[2].diff = {Str("b.go")}
    /\ model.state = stateConfirm
    /\ model.commits # <<>>
    /\ Completed(model) = {}

\* What a request sent after commits does keep to: its diff is of paths with
\* uncommitted changes only.
DiffOfUncommittedOnly ==
    [][SendsRequest => provider'[Len(provider')].diff \cap CommittedPaths = {}]_vars
====
